---- MODULE Spec2Model ----
(***************************************************************************)
(* Library synchronisation core of VNote: the sync router (scan, push,     *)
(* pull, copy, delete_remote), the local note store, the object store      *)
(* adapter, the RAG document naming, and the Dify profile registry.        *)
(*                                                                         *)
(* Abstractions used throughout:                                           *)
(*  - a source key "p:v:ts" is the tuple <<p, v, ts>>;                     *)
(*  - SHA-256 is collision free: a digest is represented by the value it   *)
(*    digests (tagged for sync ids);                                       *)
(*  - a string that the code inspects character by character (a RAG        *)
(*    document name) is a sequence of tokens; every other text is an       *)
(*    opaque value;                                                        *)
(*  - the object store is configured (MINIO_* set); each call to it may    *)
(*    still raise, which the handlers' except branches turn into the       *)
(*    behaviour modelled here;                                             *)
(*  - only the nested task layout note_dir/<task_id>/... is populated.     *)
(***************************************************************************)
EXTENDS Integers, Sequences, FiniteSets, TLC

VARIABLES
    files,       \* local store: task id -> the files of note_dir/<task id>
    objects,     \* bucket of the active profile: sync id -> bundle object
    tombstones,  \* sync ids that have a tombstone object in the bucket
    docs,        \* RAG documents of the two datasets
    cache,       \* key columns of the active profile's SyncItem rows
    last,        \* response of the last sync handler call
    regFile,     \* dify.json: the persisted registry document
    regLast,     \* result of the last registry call
    item,        \* the files of one task directory, content by content
    built,       \* the bundles sync_push and sync_scan built of item
    clock,       \* the wall clock of the bundle builds
    fs,          \* one JSON file and its temporary file, name by name
    wr,          \* the threads that rewrite the file, step by step
    seen,        \* what the last read_text of the file returned
    tasks,       \* TaskManager._tasks: task id -> TaskControl
    cancel_event,\* the TaskControls whose cancel_event is set
    created,     \* TaskControls created so far
    threads,     \* the call each thread is in the middle of
    task_status, \* <task id>.status.json: the persisted status
    hist,        \* per task id, the cancels since the last cleanup
    tmLast,      \* what the last call that returned answered
    task_dir,    \* the files of the task directory a pull writes to
    remote,      \* the bundle object a pull downloads, and its tombstone
    pulled,      \* what the last sync_pull answered
    table,       \* the SyncItem table, column by column and for all profiles
    ident,       \* the identity files of one task directory
    pager,       \* the paginating call in progress, page by page
    run,         \* the background task of one task id, step by step
    named,       \* one item, the names of its RAG documents and its scan
    copies       \* two sync_copy calls in progress and what they share

syncVars ==
    <<files, objects, tombstones, docs, cache, last, table, ident, pager,
      run, named, copies>>
regVars == <<regFile, regLast>>
bundleVars == <<item, built, clock>>
writeVars == <<fs, wr, seen>>
taskVars ==
    <<tasks, cancel_event, created, threads, task_status, hist, tmLast>>
vars == <<files, objects, tombstones, docs, cache, last, regFile, regLast,
          item, built, clock, fs, wr, seen, tasks, cancel_event, created,
          threads, task_status, hist, tmLast, task_dir, remote, pulled,
          table, ident, pager, run, named, copies>>
pullVars == <<task_dir, remote, pulled>>

--------------------------------------------------------------------------
(* Bounds of the model.                                                    *)

\* timestamps (created_at_ms) that requests and the clock supply
MaxTs == 1
\* task directories the local store may hold
MaxTasks == 2
\* documents the RAG service may hold
MaxDocs == 3
\* profiles a registry may hold
MaxProfiles == 2
\* app schemes a profile may hold
MaxSchemes == 2

--------------------------------------------------------------------------
(* Identity: library_sync.py                                               *)

Platform == "bilibili"
VideoId == "BV1"
Title == "T"

NoKey == <<"", "", 0>>
NoId == <<"", "", "", 0>>

make_source_key(platform, video_id, created_at_ms) ==
    <<platform, video_id, created_at_ms>>

compute_sync_id(source_key) ==
    <<"sha256", source_key[1], source_key[2], source_key[3]>>

\* task ids of fresh ingestions (uuid4)
Uuid(n) == <<"uuid", "", "", n>>
Uuids == {Uuid(1)}

Put(f, k, v) == [x \in DOMAIN f \cup {k} |-> IF x = k THEN v ELSE f[x]]
Remove(f, k) == [x \in DOMAIN f \ {k} |-> f[x]]

Stamps == 1..MaxTs
KeyOf(ts) == make_source_key(Platform, VideoId, ts)
Keys == {KeyOf(ts) : ts \in Stamps}

--------------------------------------------------------------------------
(* RAG document names: rag_service.py, library_sync.py                     *)
(* A name is a sequence of tokens: the words of the text and, one token    *)
(* each, the characters the parser looks for.  In every modelled name a    *)
(* part of the tag is at most one word.                                    *)

DigitStr == <<"1", "2", "3", "4", "5", "6", "7", "8", "9">>

\* str(n) of a created_at_ms
ToStr(n) == DigitStr[n]
\* raw.isdigit()
isdigit(raw) == \E i \in DOMAIN DigitStr : DigitStr[i] = raw
\* int(raw) of a digit string
ToInt(raw) == CHOOSE i \in DOMAIN DigitStr : DigitStr[i] = raw

\* "{title or 'Untitled'} [{platform}:{video_id or 'unknown'}[:{ts}]]"
build_rag_document_name(title, platform, video_id, created_at_ms) ==
    LET safe_title == IF title = "" THEN "Untitled" ELSE title
        safe_video_id == IF video_id = "" THEN "unknown" ELSE video_id
        tag == IF created_at_ms > 0
               THEN <<platform, ":", safe_video_id, ":", ToStr(created_at_ms)>>
               ELSE <<platform, ":", safe_video_id>>
    IN  <<safe_title, " ", "[">> \o tag \o <<"]">>

NoteName(base) == base \o <<" ", "(note)">>
TranscriptName(base) == base \o <<" ", "(transcript)">>

\* s.strip() on tokens
RECURSIVE LStrip(_)
LStrip(s) == IF s # <<>> /\ Head(s) = " " THEN LStrip(Tail(s)) ELSE s
RECURSIVE RStrip(_)
RStrip(s) ==
    IF s # <<>> /\ s[Len(s)] = " " THEN RStrip(SubSeq(s, 1, Len(s) - 1)) ELSE s
Strip(s) == RStrip(LStrip(s))

\* s.rfind(c, 0, hi): the last position below hi holding c, 0 when none
RFind(s, c, hi) ==
    LET hits == {i \in 1..hi : i <= Len(s) /\ s[i] = c}
    IN  IF hits = {} THEN 0 ELSE CHOOSE i \in hits : \A j \in hits : j <= i

\* [p.strip() for p in tag.split(":")]
RECURSIVE SplitColon(_)
SplitColon(tag) ==
    LET hits == {i \in 1..Len(tag) : tag[i] = ":"}
    IN  IF hits = {}
        THEN <<Strip(tag)>>
        ELSE LET i == CHOOSE k \in hits : \A j \in hits : k <= j
             IN  <<Strip(SubSeq(tag, 1, i - 1))>>
                 \o SplitColon(SubSeq(tag, i + 1, Len(tag)))

\* the text of a stripped part (at most one word)
Word(p) == IF p = <<>> THEN "" ELSE p[1]

NoTag == [ok |-> FALSE, title |-> <<>>, platform |-> "", video_id |-> "",
          created_at_ms |-> 0]

\* (title, platform, video_id, created_at_ms | None) of a document name;
\* created_at_ms None is 0
parse_dify_sync_tag(name) ==
    LET n == Strip(name)
        right == RFind(n, "]", Len(n))
        left == RFind(n, "[", right - 1)
        parts == SplitColon(Strip(SubSeq(n, left + 1, right - 1)))
        raw == Word(parts[3])
    IN  IF right = 0 \/ left = 0 THEN NoTag
        ELSE IF Len(parts) < 2 THEN NoTag
        ELSE IF Word(parts[1]) = "" \/ Word(parts[2]) = "" THEN NoTag
        ELSE [ok |-> TRUE,
              title |-> Strip(SubSeq(n, 1, left - 1)),
              platform |-> Word(parts[1]),
              video_id |-> Word(parts[2]),
              created_at_ms |->
                  IF Len(parts) >= 3 /\ isdigit(raw) THEN ToInt(raw) ELSE 0]

\* name.lower() on the words a suffix test reads
Lower(tok) ==
    CASE tok = "(Transcript)" -> "(transcript)"
      [] tok = "(Note)" -> "(note)"
      [] OTHER -> tok
Contains(name, word) == \E i \in DOMAIN name : Lower(name[i]) = word

--------------------------------------------------------------------------
(* RAG service: dify_client.py                                             *)
(* Two datasets are configured with a service key.  A document is          *)
(* identified by its dataset and name.                                     *)

NoteDataset == "note-ds"
TranscriptDataset == "transcript-ds"

\* the methods DifyKnowledgeClient defines; calling any other name raises
\* AttributeError, which no "except DifyError" catches
KnowledgeClientMethods ==
    {"list_documents", "retrieve", "create_document_by_text",
     "get_batch_indexing_status"}

Doc(ds, name) == [ds |-> ds, name |-> name]
NoDoc == Doc("", <<>>)

\* names that devices running older versions, or users, gave to documents
LegacyNames ==
    { NoteName(build_rag_document_name(Title, Platform, VideoId, 0)),
      <<Title, " ", "[", Platform, ":", VideoId, ":", "v2", "]", " ",
        "(Transcript)">> }
LegacyDocs == { Doc(NoteDataset, n) : n \in LegacyNames }

\* client.list_documents over all pages of one dataset
list_all_documents(ds) == {d \in docs : d.ds = ds}

\* the document of the dataset carrying exactly this name, NoDoc when none
find_document_by_name(ds, name) ==
    IF \E d \in docs : d.ds = ds /\ Strip(d.name) = Strip(name)
    THEN CHOOSE d \in docs : d.ds = ds /\ Strip(d.name) = Strip(name)
    ELSE NoDoc

--------------------------------------------------------------------------
(* Bundles: library_sync.py build_bundle_zip                               *)
(* The audio metadata and the request metadata are the same in every       *)
(* modelled item and are left out of the bundle value.                     *)

Notes == {"A", "B"}
TranscriptX == "X"
EmptyDict == "{}"

\* note_markdown.strip(): every modelled text is either empty or non-blank
StripText(md) == md

\* the zip bytes, as the values that determine them; "" is an absent member
build_bundle_zip(source_key, sync_id, note_markdown, transcript) ==
    [source_key |-> source_key,
     sync_id |-> sync_id,
     note |-> IF StripText(note_markdown) # "" THEN note_markdown ELSE "",
     tr |-> IF transcript \in {"", EmptyDict} THEN "" ELSE transcript]

NoBundle == [source_key |-> NoKey, sync_id |-> NoId, note |-> "", tr |-> ""]

\* hashlib.sha256(data).hexdigest(): collision free, None is the empty value
Sha256Bundle(b) == b
Sha256Text(t) == t

\* content_sha256 of meta.json
ContentNoteSha(b) == Sha256Text(b.note)
ContentTranscriptSha(b) == Sha256Text(b.tr)

NoMeta == [bundle_sha256 |-> NoBundle, note_sha256 |-> "",
           transcript_sha256 |-> ""]

\* the user metadata sync_push and sync_copy attach to a bundle
BundleMetadata(b) ==
    [bundle_sha256 |-> Sha256Bundle(b),
     note_sha256 |-> ContentNoteSha(b),
     transcript_sha256 |-> ContentTranscriptSha(b)]

--------------------------------------------------------------------------
(* Object store adapter: minio_storage.py                                  *)

\* stat of a bundle key: None (NoMeta, exists FALSE) for a missing object
StatBundle(sid) ==
    IF sid \in DOMAIN objects
    THEN [exists |-> TRUE, metadata |-> objects[sid].metadata]
    ELSE [exists |-> FALSE, metadata |-> NoMeta]

\* stat of a tombstone key "is not None"
StatTombstone(sid) == sid \in tombstones

\* put_bytes of a bundle under its key (replaces an existing object)
PutBundle(sid, data, metadata) ==
    Put(objects, sid, [data |-> data, metadata |-> metadata])

--------------------------------------------------------------------------
(* Local note store: library_sync.py, sync.py helpers                      *)
(* files[t] holds, for the task directory t:                               *)
(*   ts   created_at_ms of the sidecar t.sync.json (equal to the one in    *)
(*        t.json / t.status.json, which every writer sets with it)         *)
(*   md   text of t_markdown.md, "" when the file is missing               *)
(*   tr   content of t_transcript.json, "" when the file is missing        *)
(* t_audio.json always carries Title, Platform, VideoId.  t.json and       *)
(* t.status.json exist in every task directory.                            *)

Task(ts, md, tr) == [ts |-> ts, md |-> md, tr |-> tr]

\* "markdown" and "transcript" of t.json.  Every writer of t.json stores
\* the note and transcript it also writes to the two files, "" and {} when
\* it has none, and the files are never removed alone: where a file is
\* missing, t.json holds the empty value
ResultMarkdown(f) == ""
ResultTranscript(f) == EmptyDict

\* sorted(task_ids): uuid task ids sort before or after the sha256 ones
Rank(t) ==
    IF t[1] = "uuid"
    THEN IF t[4] % 2 = 1 THEN 0 - t[4] ELSE 100 + t[4]
    ELSE t[4]

\* scan_local_notes: the task ids whose sidecar carries the source key
LocalWithKey(sk) == {t \in DOMAIN files : KeyOf(files[t].ts) = sk}

\* {i.source_key: i for i in local_items}: the last in order wins
local_by_source(sk) ==
    CHOOSE t \in LocalWithKey(sk) : \A u \in LocalWithKey(sk) : Rank(u) <= Rank(t)

\* for it in scan_local_notes(...): if it.source_key == sk: break
first_local(sk) ==
    CHOOSE t \in LocalWithKey(sk) : \A u \in LocalWithKey(sk) : Rank(t) <= Rank(u)

\* _read_local_payloads: (transcript_json, note_markdown); the files first,
\* t.json for what is missing or blank
read_local_payloads(f) ==
    [transcript |-> IF f.tr # "" THEN f.tr ELSE ResultTranscript(f),
     note |-> IF StripText(f.md) # "" THEN f.md ELSE ResultMarkdown(f)]

\* sync_scan's local capability flags
local_has_note(f) == f.md # "" \/ StripText(ResultMarkdown(f)) # ""
local_has_transcript(f) == f.tr # "" \/ ResultTranscript(f) # ""

\* ensure_local_sync_meta with a preferred created_at_ms: the sidecar is
\* kept when it already carries that identity and rewritten otherwise
ensure_local_sync_meta(f, prefer_ms) ==
    IF f.ts = prefer_ms THEN f ELSE [f EXCEPT !.ts = prefer_ms]

--------------------------------------------------------------------------
(* Responses                                                               *)

Sides == {"note", "transcript"}

\* what the last call answered: its code, the identity and task it named,
\* the flags of the request (include_note and include_transcript of a push,
\* overwrite of a pull), whether it uploaded a bundle, the items of a scan
Resp(op, code, sk, task, inc, put, items) ==
    [op |-> op, code |-> code, sk |-> sk, task |-> task, inc |-> inc,
     put |-> put, items |-> items]

\* an answer that carries a code only
Fail(op, code, sk) == Resp(op, code, sk, NoId, <<FALSE, FALSE>>, FALSE, <<>>)

NoInc == <<FALSE, FALSE>>

TaskIds == Uuids \cup {compute_sync_id(k) : k \in Keys}

--------------------------------------------------------------------------
(* Note generation and deletion: note.py                                   *)

\* run_note_task with the default settings (no automatic bundle upload,
\* automatic RAG ingestion since a service key and datasets are set):
\* saves the generated note under the task id with created_at_ms = now,
\* then creates the transcript and the note document; `failed` are the
\* sides whose create call raised DifyError
run_note_task(task_id, now, md, failed) ==
    LET base == build_rag_document_name(Title, Platform, VideoId, now)
        made == (IF "transcript" \in failed THEN {}
                 ELSE {Doc(TranscriptDataset, TranscriptName(base))})
                \cup (IF "note" \in failed THEN {}
                      ELSE {Doc(NoteDataset, NoteName(base))})
    IN  /\ Cardinality(DOMAIN files \cup {task_id}) <= MaxTasks
        /\ Cardinality(docs \cup made) <= MaxDocs
        /\ files' = Put(files, task_id,
                        ensure_local_sync_meta(
                            Task(now, md, TranscriptX), now))
        /\ docs' = docs \cup made
        /\ last' = Fail("generate", 200, NoKey)
        /\ UNCHANGED <<objects, tombstones, cache>>

\* a task directory the scan no longer finds: removed by hand, or never
\* present on this installation of the shared bucket (delete_task itself
\* raises before it reaches _delete_task_files)
RemoveTaskDir(task_id) ==
    /\ task_id \in DOMAIN files
    /\ files' = Remove(files, task_id)
    /\ last' = Fail("remove_dir", 200, NoKey)
    /\ UNCHANGED <<objects, tombstones, docs, cache>>

\* the user edits t_markdown.md in place
EditNote(task_id, md) ==
    /\ task_id \in DOMAIN files
    /\ files[task_id].md # md
    /\ files' = [files EXCEPT ![task_id].md = md]
    /\ last' = Fail("edit", 200, NoKey)
    /\ UNCHANGED <<objects, tombstones, docs, cache>>

\* a document that this program did not name appears in a dataset
ForeignDoc(d) ==
    /\ d \notin docs
    /\ Cardinality(docs) < MaxDocs
    /\ docs' = docs \cup {d}
    /\ last' = Fail("foreign_doc", 200, NoKey)
    /\ UNCHANGED <<files, objects, tombstones, cache>>

--------------------------------------------------------------------------
(* sync_push: sync.py                                                      *)

\* a push that reads the advertised hash under a key the store never sets
existing_sha_missing(st) == NoBundle

\* the bundle-sha256 an existing object advertises, NoBundle for None
existing_sha(st) == st.metadata.bundle_sha256

\* the RAG upsert of one side: "skip" when the side is not included,
\* "error" on DifyError, "crash" when the existing document is to be
\* updated through a method the client lacks, "keep" when it is updated,
\* "create" when no document carries the name
UpsertOutcome(included, ds, name, failed) ==
    IF ~included THEN "skip"
    ELSE IF failed THEN "error"
    ELSE IF find_document_by_name(ds, name) # NoDoc
         THEN IF "update_document_by_text" \in KnowledgeClientMethods
              THEN "keep" ELSE "crash"
         ELSE "create"

\* fault: "none", or the storage call that raises: "tomb" (stat or removal
\* of the tombstone), "stat" (stat of the bundle), "put"
sync_push(item_id, include_note, include_transcript, update_dify, fault, failed) ==
    IF item_id \notin DOMAIN files
    THEN /\ last' = Fail("push", 404, NoKey)
         /\ UNCHANGED <<files, objects, tombstones, docs, cache>>
    ELSE
    LET local == files[item_id]
        pay == read_local_payloads(local)
        inc == <<include_note, include_transcript>>
        source_key == KeyOf(local.ts)
        sync_id == compute_sync_id(source_key)
        bundle == build_bundle_zip(source_key, sync_id,
                      IF include_note THEN pay.note ELSE "",
                      IF include_transcript THEN pay.transcript ELSE "")
        bundle_sha256 == Sha256Bundle(bundle)
        tombs == IF fault = "tomb" THEN tombstones
                 ELSE tombstones \ {sync_id}
        need_put == existing_sha(StatBundle(sync_id)) # bundle_sha256
        stored == fault # "stat" /\ ~(need_put /\ fault = "put")
        base == build_rag_document_name(Title, Platform, VideoId, local.ts)
        on == UpsertOutcome(include_note, NoteDataset, NoteName(base),
                            "note" \in failed)
        ot == IF on = "crash" THEN "skip"
              ELSE UpsertOutcome(include_transcript, TranscriptDataset,
                                 TranscriptName(base), "transcript" \in failed)
        made == (IF on = "create" THEN {Doc(NoteDataset, NoteName(base))}
                 ELSE {})
                \cup (IF ot = "create"
                      THEN {Doc(TranscriptDataset, TranscriptName(base))}
                      ELSE {})
    IN  IF (include_note /\ StripText(pay.note) = "")
           \/ (include_transcript /\ pay.transcript = "")
        THEN /\ last' = Fail("push", 400, NoKey)
             /\ UNCHANGED <<files, objects, tombstones, docs, cache>>
        ELSE IF ~stored
        THEN /\ tombstones' = tombs
             /\ last' = Fail("push", 500, NoKey)
             /\ UNCHANGED <<files, objects, docs, cache>>
        ELSE /\ tombstones' = tombs
             /\ objects' = IF need_put
                           THEN PutBundle(sync_id, bundle,
                                          BundleMetadata(bundle))
                           ELSE objects
             /\ IF update_dify
                THEN /\ Cardinality(docs \cup made) <= MaxDocs
                     /\ docs' = docs \cup made
                     /\ last' = IF "crash" \in {on, ot}
                                THEN Fail("push", 500, NoKey)
                                ELSE Resp("push", 200, source_key, item_id,
                                          inc, need_put, <<>>)
                ELSE /\ docs' = docs
                     /\ last' = Resp("push", 200, source_key, item_id, inc,
                                     need_put, <<>>)
             /\ UNCHANGED <<files, cache>>

--------------------------------------------------------------------------
(* sync_pull: sync.py                                                      *)

\* a _should_write that does not look at the file
should_write_always(overwrite, content) == TRUE

\* _should_write(path): overwrite, or the file is missing or empty
should_write(overwrite, content) == overwrite \/ content = ""

\* a target that is the directory named by the sync id in every case
pull_target_sync_id(source_key) == compute_sync_id(source_key)

\* the task id a pull writes to: the first local item that carries the
\* source key, the sync id when there is none
pull_target(source_key) ==
    IF LocalWithKey(source_key) # {}
    THEN first_local(source_key) ELSE compute_sync_id(source_key)

\* fault: "none", or the storage call that raises: "tomb" (stat of the
\* tombstone), "stat" (stat of the bundle), "get"
sync_pull(source_key, overwrite, fault) ==
    LET sync_id == compute_sync_id(source_key)
        blocked == fault # "tomb" /\ StatTombstone(sync_id)
        remote_bundle_sha256 ==
            IF fault = "stat" THEN NoBundle
            ELSE existing_sha(StatBundle(sync_id))
        got == fault # "get" /\ sync_id \in DOMAIN objects
        data == objects[sync_id].data
        task_id == pull_target(source_key)
        exists == task_id \in DOMAIN files
        old == IF exists THEN files[task_id]
               ELSE Task(source_key[3], "", "")
        w_md == data.note # "" /\ should_write(overwrite, old.md)
        w_tr == data.tr # "" /\ should_write(overwrite, old.tr)
        w_res == overwrite \/ ~exists
        wrote_any == w_md \/ w_tr \/ w_res
        new == Task(old.ts,
                    IF w_md THEN data.note ELSE old.md,
                    IF w_tr THEN data.tr ELSE old.tr)
        code == IF blocked THEN 410
                ELSE IF ~got THEN 500
                ELSE IF remote_bundle_sha256 # NoBundle
                        /\ Sha256Bundle(data) # remote_bundle_sha256 THEN 500
                ELSE IF data.sync_id # sync_id THEN 500
                ELSE IF data.source_key # source_key THEN 400
                ELSE IF ~wrote_any /\ ~overwrite THEN 409
                ELSE 200
    IN  /\ last' = Resp("pull", code, source_key, NoId, <<overwrite>>, FALSE,
                     <<>>)
        /\ IF code \in {200, 409}
           THEN /\ Cardinality(DOMAIN files \cup {task_id}) <= MaxTasks
                /\ files' = Put(files, task_id,
                                ensure_local_sync_meta(new, source_key[3]))
           ELSE files' = files
        /\ UNCHANGED <<objects, tombstones, docs, cache>>

--------------------------------------------------------------------------
(* sync_copy: sync.py                                                      *)

\* probes of the loop that looks for a free identity
CopyProbes == 20

\* the loop: the created_at_ms of the key it ends with (k) and the
\* created_at_ms variable after it (c); statFails: the stat calls raise
RECURSIVE ProbeFree(_, _, _)
ProbeFree(created_at_ms, left, statFails) ==
    LET new_sync_id == compute_sync_id(KeyOf(created_at_ms))
        exists_local == new_sync_id \in DOMAIN files
        exists_remote == ~statFails /\ StatBundle(new_sync_id).exists
    IN  IF ~exists_local /\ ~exists_remote
        THEN [k |-> created_at_ms, c |-> created_at_ms]
        ELSE IF left = 1
        THEN [k |-> created_at_ms, c |-> created_at_ms + 1]
        ELSE ProbeFree(created_at_ms + 1, left - 1, statFails)

\* fault: "none", or the storage call that raises: "get", "stat" (the
\* probes), "put"; new_ms is new_created_at_ms, or the clock when that is
\* not given
sync_copy(source_key, from_side, create_dify_docs, include_note, include_transcript, new_ms, fault, failed) ==
    LET src_id == compute_sync_id(source_key)
        has_src == IF from_side = "local" THEN LocalWithKey(source_key) # {}
                   ELSE fault # "get" /\ src_id \in DOMAIN objects
        pay == IF from_side = "local"
               THEN read_local_payloads(files[first_local(source_key)])
               ELSE [note |-> objects[src_id].data.note,
                     transcript |-> IF objects[src_id].data.tr = ""
                                    THEN EmptyDict
                                    ELSE objects[src_id].data.tr]
        probe == ProbeFree(new_ms, CopyProbes, fault = "stat")
        new_source_key == KeyOf(probe.k)
        new_sync_id == compute_sync_id(new_source_key)
        note == IF include_note THEN pay.note ELSE ""
        transcript == IF include_transcript THEN pay.transcript ELSE ""
        bundle == build_bundle_zip(new_source_key, new_sync_id, note,
                                   transcript)
        old == IF new_sync_id \in DOMAIN files THEN files[new_sync_id]
               ELSE Task(probe.c, "", "")
        new == Task(old.ts,
                    IF include_note THEN note ELSE old.md,
                    IF include_transcript THEN transcript ELSE old.tr)
        base == build_rag_document_name(Title, Platform, VideoId, probe.c)
        made == (IF create_dify_docs /\ include_note /\ "note" \notin failed
                 THEN {Doc(NoteDataset, NoteName(base))} ELSE {})
                \cup (IF create_dify_docs /\ include_transcript
                         /\ "transcript" \notin failed
                      THEN {Doc(TranscriptDataset, TranscriptName(base))}
                      ELSE {})
    IN  IF ~has_src
        THEN /\ last' = Fail("copy", IF from_side = "local" THEN 404 ELSE 500,
                             NoKey)
             /\ UNCHANGED <<files, objects, tombstones, docs, cache>>
        ELSE IF (include_note /\ StripText(pay.note) = "")
                \/ (include_transcript /\ pay.transcript = "")
        THEN /\ last' = Fail("copy", 400, NoKey)
             /\ UNCHANGED <<files, objects, tombstones, docs, cache>>
        ELSE /\ probe.c <= MaxTs
             /\ IF fault = "put"
                THEN /\ last' = Fail("copy", 500, NoKey)
                     /\ UNCHANGED <<files, objects, tombstones, docs, cache>>
                ELSE /\ Cardinality(DOMAIN files \cup {new_sync_id}) <= MaxTasks
                     /\ Cardinality(docs \cup made) <= MaxDocs
                     /\ objects' = PutBundle(new_sync_id, bundle,
                                             BundleMetadata(bundle))
                     /\ files' = Put(files, new_sync_id,
                                     ensure_local_sync_meta(new, probe.c))
                     /\ docs' = docs \cup made
                     /\ last' = Resp("copy", 200, new_source_key, new_sync_id,
                                     NoInc, TRUE, <<>>)
                     /\ UNCHANGED <<tombstones, cache>>

--------------------------------------------------------------------------
(* sync_delete_remote: sync.py                                             *)

\* note_doc / transcript_doc: the document ids of the request, NoDoc when
\* not given; fault "put": the tombstone upload raises; failed: the sides
\* whose delete call raises DifyError
sync_delete_remote(source_key, delete_dify, note_doc, transcript_doc, fault, failed) ==
    LET sync_id == compute_sync_id(source_key)
        calls == (IF delete_dify /\ note_doc # NoDoc THEN {"note"} ELSE {})
                 \cup (IF delete_dify /\ transcript_doc # NoDoc
                       THEN {"transcript"} ELSE {})
        crash == calls # {} /\ "delete_document" \notin KnowledgeClientMethods
        gone == IF crash THEN {}
                ELSE (IF "note" \in calls \ failed THEN {note_doc} ELSE {})
                     \cup (IF "transcript" \in calls \ failed
                           THEN {transcript_doc} ELSE {})
    IN  IF fault = "put"
        THEN /\ last' = Fail("delete_remote", 500, NoKey)
             /\ UNCHANGED <<files, objects, tombstones, docs, cache>>
        ELSE /\ tombstones' = tombstones \cup {sync_id}
             /\ docs' = docs \ gone
             /\ last' = IF crash THEN Fail("delete_remote", 500, NoKey)
                        ELSE Fail("delete_remote", 200, source_key)
             /\ UNCHANGED <<files, objects, cache>>

--------------------------------------------------------------------------
(* sync_scan: sync.py                                                      *)

\* every name a document of the two datasets can carry
DocNames ==
    LegacyNames
        \cup {NoteName(build_rag_document_name(Title, Platform, VideoId, ts)) :
                ts \in Stamps}
        \cup {TranscriptName(build_rag_document_name(Title, Platform, VideoId,
                                                     ts)) : ts \in Stamps}

\* parse_dify_sync_tag(name) of each of them
Tags == [name \in DocNames |-> parse_dify_sync_tag(name)]

\* the names the suffix filter of a listing lets through
Passes == [other_suffix \in {"(note)", "(transcript)"} |->
              {name \in DocNames : /\ Strip(name) # <<>>
                                   /\ ~Contains(Strip(name), other_suffix)}]

\* the documents of a listing that survive its suffix filter and carry a tag
Listed(ds, other_suffix) ==
    {d \in list_all_documents(ds) :
        d.name \in Passes[other_suffix] /\ Tags[d.name].ok}

TagKey(d) ==
    make_source_key(Tags[d.name].platform, Tags[d.name].video_id,
                    Tags[d.name].created_at_ms)

\* a join that also keys the documents without a numeric created_at_ms
remote_by_source_all(ds, other_suffix) == Listed(ds, other_suffix)

\* remote_note_by_source / remote_transcript_by_source
remote_by_source(ds, other_suffix) ==
    {d \in Listed(ds, other_suffix) : Tags[d.name].created_at_ms > 0}

\* legacy_remote of one listing
legacy_remote(ds, other_suffix) ==
    {d \in Listed(ds, other_suffix) : Tags[d.name].created_at_ms = 0}

RemoteDoc(ds, other_suffix, sk) ==
    LET hits == {d \in remote_by_source(ds, other_suffix) : TagKey(d) = sk}
    IN  IF hits = {} THEN NoDoc ELSE CHOOSE d \in hits : TRUE

all_source_keys ==
    {KeyOf(files[t].ts) : t \in DOMAIN files}
        \cup {TagKey(d) : d \in remote_by_source(NoteDataset, "(transcript)")}
        \cup {TagKey(d) : d \in remote_by_source(TranscriptDataset, "(note)")}

\* Optional[bool] of a stat: "none" when the call raised
Tri(b, raised) == IF raised THEN "none" ELSE IF b THEN "true" ELSE "false"

\* a first status that does not compare the flags of the two sides
BaseStatus_flags_unseen(has_local, lhn, lht, rhn, rht) ==
    IF has_local /\ (rhn \/ rht) THEN "SYNCED"
    ELSE IF has_local THEN "LOCAL_ONLY"
    ELSE "DIFY_ONLY"

\* the status before the object store is consulted
BaseStatus(has_local, lhn, lht, rhn, rht) ==
    IF has_local /\ (rhn \/ rht)
    THEN IF lhn = rhn /\ lht = rht THEN "SYNCED" ELSE "PARTIAL"
    ELSE IF has_local THEN "LOCAL_ONLY"
    ELSE "DIFY_ONLY"

\* a comparison that takes an unknown hash for a different one
Mismatch_unknown(remote_has, local_has, sha_local, sha_remote) ==
    remote_has /\ local_has /\ sha_local # sha_remote

\* a both-sided artifact whose two known hashes differ
Mismatch(remote_has, local_has, sha_local, sha_remote) ==
    remote_has /\ local_has /\ sha_local # "" /\ sha_remote # ""
        /\ sha_local # sha_remote

\* a classification that looks at the bundle before the tombstone
FinalStatus_bundle_first(base, has_local, has_remote, tomb, bundle, note_mismatch, transcript_mismatch) ==
    IF ~has_local /\ has_remote /\ bundle = "false"
    THEN "DIFY_ONLY_NO_BUNDLE"
    ELSE IF tomb = "true" THEN (IF has_local THEN "LOCAL_ONLY" ELSE "DELETED")
    ELSE IF base = "SYNCED" /\ (note_mismatch \/ transcript_mismatch)
    THEN "CONFLICT"
    ELSE base

\* the classification once the tombstone and bundle hints are known
FinalStatus(base, has_local, has_remote, tomb, bundle, note_mismatch, transcript_mismatch) ==
    IF tomb = "true" THEN (IF has_local THEN "LOCAL_ONLY" ELSE "DELETED")
    ELSE IF ~has_local /\ has_remote /\ bundle = "false"
    THEN "DIFY_ONLY_NO_BUNDLE"
    ELSE IF base = "SYNCED" /\ (note_mismatch \/ transcript_mismatch)
    THEN "CONFLICT"
    ELSE base

\* the merged entry of one source key; tombFails / bundleFails: the
\* tombstone stats / the bundle stats of this scan raise
MergedItem(sk, tombFails, bundleFails) ==
    LET sync_id == compute_sync_id(sk)
        has_local == LocalWithKey(sk) # {}
        task == IF has_local THEN local_by_source(sk) ELSE NoId
        f == IF has_local THEN files[task] ELSE Task(0, "", "")
        lhn == has_local /\ local_has_note(f)
        lht == has_local /\ local_has_transcript(f)
        remote_note == RemoteDoc(NoteDataset, "(transcript)", sk)
        remote_transcript == RemoteDoc(TranscriptDataset, "(note)", sk)
        rhn == remote_note # NoDoc
        rht == remote_transcript # NoDoc
        pay == read_local_payloads(f)
        nsl == IF lhn /\ StripText(pay.note) # ""
               THEN Sha256Text(pay.note) ELSE ""
        tsl == IF lht /\ pay.transcript # ""
               THEN Sha256Text(pay.transcript) ELSE ""
        tomb == Tri(StatTombstone(sync_id), tombFails)
        st == StatBundle(sync_id)
        bundle == Tri(st.exists, bundleFails)
        nsr == IF bundle = "true" THEN st.metadata.note_sha256 ELSE ""
        tsr == IF bundle = "true" THEN st.metadata.transcript_sha256 ELSE ""
        base == BaseStatus(has_local, lhn, lht, rhn, rht)
        status == FinalStatus(base, has_local, rhn \/ rht, tomb, bundle,
                              Mismatch(rhn, lhn, nsl, nsr),
                              Mismatch(rht, lht, tsl, tsr))
        hide == tomb = "true" /\ has_local
    IN  [status |-> status,
         source_key |-> sk,
         sync_id |-> sync_id,
         created_at_ms |-> sk[3],
         local_task_id |-> task,
         local_has_note |-> lhn,
         local_has_transcript |-> lht,
         dify_note_document |-> IF hide THEN NoDoc ELSE remote_note,
         dify_transcript_document |->
             IF hide THEN NoDoc ELSE remote_transcript,
         remote_has_note |-> rhn /\ ~hide,
         remote_has_transcript |-> rht /\ ~hide,
         minio_bundle_exists |-> bundle,
         minio_tombstone_exists |-> tomb,
         note_sha256_local |-> nsl,
         note_sha256_remote |-> nsr,
         transcript_sha256_local |-> tsl,
         transcript_sha256_remote |-> tsr]

\* the entry of a document whose tag has no numeric created_at_ms
LegacyItem(d, kind) ==
    [status |-> "DIFY_ONLY_LEGACY",
     source_key |-> NoKey,
     sync_id |-> NoId,
     created_at_ms |-> 0,
     local_task_id |-> NoId,
     local_has_note |-> FALSE,
     local_has_transcript |-> FALSE,
     dify_note_document |-> IF kind = "note" THEN d ELSE NoDoc,
     dify_transcript_document |-> IF kind = "transcript" THEN d ELSE NoDoc,
     remote_has_note |-> FALSE,
     remote_has_transcript |-> FALSE,
     minio_bundle_exists |-> "none",
     minio_tombstone_exists |-> "none",
     note_sha256_local |-> "",
     note_sha256_remote |-> "",
     transcript_sha256_local |-> "",
     transcript_sha256_remote |-> ""]

Merged(tombFails, bundleFails) ==
    {MergedItem(sk, tombFails, bundleFails) : sk \in all_source_keys}
        \cup {LegacyItem(d, "note") :
                d \in legacy_remote(NoteDataset, "(transcript)")}
        \cup {LegacyItem(d, "transcript") :
                d \in legacy_remote(TranscriptDataset, "(note)")}

\* merged.sort(key=created_at_ms or 0, reverse=True)
RECURSIVE SortItems(_)
SortItems(S) ==
    IF S = {} THEN <<>>
    ELSE LET m == CHOOSE x \in S :
                     \A y \in S : y.created_at_ms <= x.created_at_ms
         IN  <<m>> \o SortItems(S \ {m})

Range(q) == {q[i] : i \in DOMAIN q}

\* the rows written to the cached table, by their key columns: only
\* entries with both ids
CacheRows(items) ==
    {[source_key |-> it.source_key, sync_id |-> it.sync_id] :
        it \in {x \in Range(items) : x.source_key # NoKey /\ x.sync_id # NoId}}

\* difyFails: a list_documents call raises DifyError; dbFails: the session
\* or one of its statements raises, and the transaction is rolled back
sync_scan(difyFails, tombFails, bundleFails, dbFails) ==
    \E merged \in {Merged(tombFails, bundleFails)} :
    \E items \in {SortItems(merged)} :
        IF difyFails
        THEN /\ last' = Fail("scan", 500, NoKey)
             /\ UNCHANGED <<files, objects, tombstones, docs, cache>>
        ELSE /\ cache' = IF dbFails THEN cache ELSE CacheRows(items)
             /\ last' = Resp("scan", 200, NoKey, NoId, NoInc, FALSE, items)
             /\ UNCHANGED <<files, objects, tombstones, docs>>

--------------------------------------------------------------------------
(* Profile registry: dify_config_manager.py                                *)
(* A name (of a profile or of a scheme) is <<base, i>>: the text base for  *)
(* i = 1 and "base-i" for i > 1.  A dict whose order the code relies on    *)
(* (app_schemes) is the sequence of its entries in insertion order.  A     *)
(* profile cfg keeps the set of the keys present in the dict; a key that   *)
(* is absent carries the empty value.  base_url and dataset_id stand for   *)
(* the string fields a profile holds besides the app key.                  *)

Name(b) == <<b, 1>>
NoName == Name("")
DefaultName == Name("default")
\* _DEFAULT_APP_SCHEME
DEFAULT_APP_SCHEME == Name("default")

\* an entry of app_schemes: name -> {"app_api_key": key} or name -> {}
Scheme(name, has_key, key) == [name |-> name, has_key |-> has_key, key |-> key]

Cfg(keys, base_url, app_api_key, active_app_scheme, app_schemes) ==
    [keys |-> keys, base_url |-> base_url, dataset_id |-> "",
     app_api_key |-> app_api_key, active_app_scheme |-> active_app_scheme,
     app_schemes |-> app_schemes]

\* the dict {}
EmptyCfg == Cfg({}, "", "", NoName, <<>>)

SchemeNames(schemes) == {schemes[i].name : i \in DOMAIN schemes}

\* position of a scheme name in the dict, 0 when it is not a key
SchemeIndex(schemes, name) ==
    IF name \in SchemeNames(schemes)
    THEN CHOOSE i \in DOMAIN schemes : schemes[i].name = name
    ELSE 0

\* str(schemes.get(name, {}).get("app_api_key") or "")
SchemeKey(schemes, name) ==
    IF name \in SchemeNames(schemes)
    THEN schemes[SchemeIndex(schemes, name)].key
    ELSE ""

\* schemes[name] = {"app_api_key": key}: in place for an existing name, at
\* the end for a new one
SetScheme(schemes, name, has_key, key) ==
    IF name \in SchemeNames(schemes)
    THEN [i \in DOMAIN schemes |->
            IF schemes[i].name = name THEN Scheme(name, has_key, key)
            ELSE schemes[i]]
    ELSE Append(schemes, Scheme(name, has_key, key))

\* _pick_unique_name(existing, base)
pick_unique_name(existing, base) ==
    LET b == IF base = "" THEN "main" ELSE base
    IN  IF Name(b) \notin existing THEN Name(b)
        ELSE <<b, CHOOSE i \in 2..(Cardinality(existing) + 2) :
                    /\ <<b, i>> \notin existing
                    /\ \A j \in 2..(i - 1) : <<b, j>> \in existing>>

\* _normalize_profile_cfg, lines 82-90: a "default" scheme always exists; a
\* flat key of a profile without schemes moves to a scheme "main"
EnsureDefaultScheme(cfg) ==
    IF cfg.app_schemes = <<>>
    THEN IF cfg.app_api_key # ""
         THEN [cfg EXCEPT
                 !.app_schemes = <<Scheme(DEFAULT_APP_SCHEME, FALSE, ""),
                                   Scheme(pick_unique_name(
                                              {DEFAULT_APP_SCHEME}, "main"),
                                          TRUE, cfg.app_api_key)>>,
                 !.active_app_scheme =
                     pick_unique_name({DEFAULT_APP_SCHEME}, "main"),
                 !.keys = @ \cup {"active_app_scheme"}]
         ELSE [cfg EXCEPT
                 !.app_schemes = <<Scheme(DEFAULT_APP_SCHEME, FALSE, "")>>]
    ELSE IF DEFAULT_APP_SCHEME \notin SchemeNames(cfg.app_schemes)
    THEN [cfg EXCEPT !.app_schemes =
                        Append(@, Scheme(DEFAULT_APP_SCHEME, FALSE, ""))]
    ELSE cfg

\* the first non-default scheme holding the key, NoName when none
SchemeWithKey(schemes, key) ==
    LET hits == {i \in DOMAIN schemes :
                    /\ schemes[i].name # DEFAULT_APP_SCHEME
                    /\ schemes[i].key = key}
    IN  IF hits = {} THEN NoName
        ELSE schemes[CHOOSE i \in hits : \A j \in hits : i <= j].name

\* lines 92-118: a key stored under "default" moves to a non-default scheme
MigrateDefaultKey(cfg) ==
    LET schemes == cfg.app_schemes
        default_key == SchemeKey(schemes, DEFAULT_APP_SCHEME)
        found == SchemeWithKey(schemes, default_key)
        target == IF found # NoName THEN found
                  ELSE pick_unique_name(SchemeNames(schemes), "main")
        added == IF found # NoName THEN schemes
                 ELSE Append(schemes, Scheme(target, TRUE, default_key))
        cleared == SetScheme(added, DEFAULT_APP_SCHEME, FALSE, "")
    IN  IF default_key = "" THEN cfg
        ELSE IF cfg.active_app_scheme \in {NoName, DEFAULT_APP_SCHEME}
        THEN [cfg EXCEPT !.app_schemes = cleared,
                         !.active_app_scheme = target,
                         !.keys = @ \cup {"active_app_scheme"}]
        ELSE [cfg EXCEPT !.app_schemes = cleared]

\* a normalization that leaves the flat key as it found it
MirrorActiveKey_stale(cfg, legacy_app_key) ==
    [cfg EXCEPT
        !.keys = @ \cup {"app_schemes", "active_app_scheme", "app_api_key"},
        !.app_api_key = legacy_app_key,
        !.active_app_scheme =
            IF cfg.active_app_scheme = NoName
               \/ cfg.active_app_scheme \notin SchemeNames(cfg.app_schemes)
            THEN DEFAULT_APP_SCHEME ELSE cfg.active_app_scheme]

\* lines 120-140: the active scheme, its key hydrated from the flat key, and
\* the flat key mirrored from it
MirrorActiveKey(cfg, legacy_app_key) ==
    LET schemes == cfg.app_schemes
        active_scheme ==
            IF cfg.active_app_scheme = NoName
               \/ cfg.active_app_scheme \notin SchemeNames(schemes)
            THEN DEFAULT_APP_SCHEME
            ELSE cfg.active_app_scheme
        hydrated ==
            IF legacy_app_key # "" /\ active_scheme # DEFAULT_APP_SCHEME
               /\ SchemeKey(schemes, active_scheme) = ""
            THEN SetScheme(schemes, active_scheme, TRUE, legacy_app_key)
            ELSE schemes
    IN  [cfg EXCEPT
            !.keys = @ \cup {"app_schemes", "active_app_scheme",
                             "app_api_key"},
            !.app_api_key = SchemeKey(hydrated, active_scheme),
            !.active_app_scheme = active_scheme,
            !.app_schemes = hydrated]

\* _normalize_profile_cfg(cfg)
normalize_profile_cfg(cfg) ==
    CHOOSE r \in {MirrorActiveKey(c2, cfg.app_api_key) :
                    c2 \in {MigrateDefaultKey(c1) :
                              c1 \in {EnsureDefaultScheme(cfg)}}} : TRUE

\* urlparse(base_url): hostname and port, "" for what it does not find
Host(base_url) == IF base_url \in {"http://h", "http://h:8443"} THEN "h" ELSE ""
Port(base_url) == IF base_url = "http://h:8443" THEN "8443" ELSE ""

\* dataset_id[:8]
Prefix8(dataset_id) ==
    IF dataset_id = "ds-abcdef1234" THEN "ds-abcde" ELSE dataset_id

\* f"{a}-{b}" of the modelled texts
Dash(a, b) ==
    CASE a = "h" /\ b = "8443" -> "h-8443"
      [] a = "h" /\ b = "ds-abcde" -> "h-ds-abcde"
      [] a = "h-8443" /\ b = "ds-abcde" -> "h-8443-ds-abcde"
      [] a = "main" /\ b = "ds-abcde" -> "main-ds-abcde"

\* lines 211-226: the readable name suggested for the data of "default"
SuggestName(cfg) ==
    LET host == Host(cfg.base_url)
        port == Port(cfg.base_url)
        base == IF host = "" THEN "main"
                ELSE IF port = "" THEN host ELSE Dash(host, port)
    IN  IF cfg.dataset_id = "" THEN base
        ELSE Dash(base, Prefix8(cfg.dataset_id))

\* a patch value that is None
None == "<None>"

NoProfiles == [n \in {} |-> EmptyCfg]

\* dify.json: absent, a flat cfg dict written by the first versions (kept
\* here as the cfg of "default"), or the version 2 document
File(exists, flat, active, profiles) ==
    [exists |-> exists, flat |-> flat, active |-> active,
     profiles |-> profiles]
NoFile == File(FALSE, FALSE, DefaultName, NoProfiles)

\* _read_state: (active_profile, profiles)
read_state(file) ==
    IF file.exists /\ ~file.flat
    THEN IF DOMAIN file.profiles = {}
         THEN [active |-> DefaultName,
               profiles |-> Put(NoProfiles, DefaultName, EmptyCfg)]
         ELSE [active |-> IF file.active \in DOMAIN file.profiles
                          THEN file.active
                          ELSE CHOOSE n \in DOMAIN file.profiles : TRUE,
               profiles |-> file.profiles]
    ELSE [active |-> DefaultName,
          profiles |-> Put(NoProfiles, DefaultName,
                           IF file.exists THEN file.profiles[DefaultName]
                           ELSE EmptyCfg)]

\* _write_state: the document the file holds afterwards
write_state(active_profile, profiles) ==
    IF DOMAIN profiles = {}
    THEN File(TRUE, FALSE, DefaultName,
              Put(NoProfiles, DefaultName, EmptyCfg))
    ELSE File(TRUE, FALSE,
              IF active_profile \in DOMAIN profiles THEN active_profile
              ELSE CHOOSE n \in DOMAIN profiles : TRUE,
              profiles)

\* a has_data that looks at the schemes only
has_data_schemes_only(cfg) ==
    \/ \E i \in DOMAIN cfg.app_schemes :
          \/ cfg.app_schemes[i].name # DEFAULT_APP_SCHEME
          \/ cfg.app_schemes[i].key # ""
    \/ cfg.active_app_scheme \notin {NoName, DEFAULT_APP_SCHEME}

\* a has_data that takes every active scheme for user data
has_data_any_active(cfg) ==
    \/ cfg.base_url # ""
    \/ cfg.dataset_id # ""
    \/ \E i \in DOMAIN cfg.app_schemes :
          \/ cfg.app_schemes[i].name # DEFAULT_APP_SCHEME
          \/ cfg.app_schemes[i].key # ""
    \/ cfg.active_app_scheme # NoName

\* _has_data(cfg) of _read_state_normalized
has_data(cfg) ==
    \/ cfg.base_url # ""
    \/ cfg.dataset_id # ""
    \/ \E i \in DOMAIN cfg.app_schemes :
          \/ cfg.app_schemes[i].name # DEFAULT_APP_SCHEME
          \/ cfg.app_schemes[i].key # ""
    \/ cfg.active_app_scheme \notin {NoName, DEFAULT_APP_SCHEME}

\* template_profile
TemplateProfile == normalize_profile_cfg(EmptyCfg)

\* lines 149-158: every profile normalized, "default" ensured
NormalizeAll(profiles) ==
    [n \in DOMAIN profiles \cup {DefaultName} |->
        IF n \in DOMAIN profiles THEN normalize_profile_cfg(profiles[n])
        ELSE TemplateProfile]

\* a migration that leaves "default" active
MigrateDefaultProfile_keep_active(active, normalized) ==
    LET default_cfg == normalized[DefaultName]
        new_name == pick_unique_name(DOMAIN normalized,
                                     SuggestName(default_cfg))
    IN  IF has_data(default_cfg)
        THEN [active |-> active,
              profiles |->
                  [n \in DOMAIN normalized \cup {new_name} |->
                      IF n = new_name THEN default_cfg
                      ELSE IF n = DefaultName THEN TemplateProfile
                      ELSE normalized[n]]]
        ELSE [active |-> active, profiles |-> normalized]

\* lines 160-233: the data of "default" moves to a derived profile
MigrateDefaultProfile(active, normalized) ==
    LET default_cfg == normalized[DefaultName]
        new_name == pick_unique_name(DOMAIN normalized,
                                     SuggestName(default_cfg))
    IN  IF has_data(default_cfg)
        THEN [active |-> IF active = DefaultName THEN new_name ELSE active,
              profiles |->
                  [n \in DOMAIN normalized \cup {new_name} |->
                      IF n = new_name THEN default_cfg
                      ELSE IF n = DefaultName THEN TemplateProfile
                      ELSE normalized[n]]]
        ELSE [active |-> active, profiles |-> normalized]

\* _read_state_normalized: what it returns (active, profiles), whether it
\* found something to change, and the file it leaves; persistFails: its
\* _write_state raises, which it swallows
read_state_normalized(file, persistFails) ==
    CHOOSE res \in
        {[active |-> m.active,
          profiles |-> m.profiles,
          changed |-> m.profiles # st.profiles,
          file |-> IF m.profiles # st.profiles /\ file.exists
                      /\ ~persistFails
                   THEN write_state(m.active, m.profiles)
                   ELSE file] :
            st \in {read_state(file)},
            m \in {MigrateDefaultProfile(
                      read_state(file).active,
                      NormalizeAll(read_state(file).profiles))}} : TRUE

\* get_active_profile: the active profile of the file as it is, without
\* normalization
get_active_profile(file) == read_state(file).active

\* a patch of update / upsert_profile: a value for base_url, dataset_id
\* and app_api_key, None for a key the patch leaves out
Patch(base_url, dataset_id, app_api_key) ==
    [base_url |-> base_url, dataset_id |-> dataset_id,
     app_api_key |-> app_api_key]
NoPatch == Patch(None, None, None)

\* update lines 429-443 and upsert_profile lines 490-501 on a normalized
\* cfg: app_api_key goes to the active scheme, every other key to the cfg
ApplyPatch(cfg, patch) ==
    [cfg EXCEPT
        !.base_url = IF patch.base_url = None THEN @ ELSE patch.base_url,
        !.dataset_id = IF patch.dataset_id = None THEN @
                       ELSE patch.dataset_id,
        !.keys = @ \cup (IF patch.base_url = None THEN {} ELSE {"base_url"})
                   \cup (IF patch.dataset_id = None THEN {}
                         ELSE {"dataset_id"}),
        !.app_schemes =
            IF patch.app_api_key = None THEN @
            ELSE SetScheme(@, IF cfg.active_app_scheme = NoName
                              THEN DEFAULT_APP_SCHEME
                              ELSE cfg.active_app_scheme,
                           TRUE, patch.app_api_key)]

\* what a registry call answered: whether it returned (ok) or raised, the
\* profile it wrote and the patch it applied, and, for a normalized read,
\* the registry it returned
RegResp(op, ok, target, patch, active, profiles) ==
    [op |-> op, ok |-> ok, target |-> target, patch |-> patch,
     active |-> active, profiles |-> profiles]

\* a registry within the bounds of the model: a profile holds at most
\* MaxSchemes schemes, or no more than the file holds for it
Fits(profiles) ==
    /\ Cardinality(DOMAIN profiles) <= MaxProfiles
    /\ \A n \in DOMAIN profiles :
           Len(profiles[n].app_schemes)
              <= IF n \in DOMAIN regFile.profiles
                    /\ Len(regFile.profiles[n].app_schemes) > MaxSchemes
                 THEN Len(regFile.profiles[n].app_schemes)
                 ELSE MaxSchemes

\* get / list_profiles: a normalized read
list_profiles(persistFails) ==
    \E r \in {read_state_normalized(regFile, persistFails)} :
        /\ Fits(r.profiles)
        /\ regFile' = r.file
        /\ regLast' = RegResp("read", TRUE, NoName, NoPatch, r.active,
                              r.profiles)

\* update(patch)
update(patch) ==
    \E r \in {read_state_normalized(regFile, FALSE)} :
    \E cfg \in {normalize_profile_cfg(
                   ApplyPatch(normalize_profile_cfg(r.profiles[r.active]),
                              patch))} :
    \E profiles \in {Put(r.profiles, r.active, cfg)} :
        /\ Fits(profiles)
        /\ regFile' = write_state(r.active, profiles)
        /\ regLast' = RegResp("update", TRUE, r.active, patch, NoName,
                              NoProfiles)

\* upsert_profile(name, patch, clone_from, activate); clone_from NoName is
\* None
upsert_profile(name, patch, clone_from, activate) ==
    \E r \in {read_state_normalized(regFile, FALSE)} :
        IF clone_from # NoName /\ clone_from \notin DOMAIN r.profiles
        THEN /\ Fits(r.profiles)
             /\ regFile' = r.file
             /\ regLast' = RegResp("upsert_profile", FALSE, NoName, NoPatch,
                                   NoName, NoProfiles)
        ELSE
        \E base \in {IF clone_from # NoName THEN r.profiles[clone_from]
                     ELSE IF name \in DOMAIN r.profiles
                     THEN r.profiles[name] ELSE EmptyCfg} :
        \E cfg \in {normalize_profile_cfg(
                       ApplyPatch(normalize_profile_cfg(base), patch))} :
        \E profiles \in {Put(r.profiles, name, cfg)} :
            /\ Fits(profiles)
            /\ regFile' = write_state(IF activate THEN name ELSE r.active,
                                      profiles)
            /\ regLast' = RegResp("upsert_profile", TRUE, name, patch,
                                  NoName, NoProfiles)

\* upsert_app_scheme(name, {"app_api_key": key}, activate); key None: {}
upsert_app_scheme(name, key, activate) ==
    \E r \in {read_state_normalized(regFile, FALSE)} :
    \E cfg \in {normalize_profile_cfg(r.profiles[r.active])} :
    \E schemes \in
        {IF key # None THEN SetScheme(cfg.app_schemes, name, TRUE, key)
         ELSE IF name \in SchemeNames(cfg.app_schemes) THEN cfg.app_schemes
         ELSE Append(cfg.app_schemes, Scheme(name, FALSE, ""))} :
    \E new \in {normalize_profile_cfg(
                   [cfg EXCEPT !.app_schemes = schemes,
                               !.active_app_scheme =
                                   IF activate THEN name ELSE @])} :
    \E profiles \in {Put(r.profiles, r.active, new)} :
        /\ Fits(profiles)
        /\ regFile' = write_state(r.active, profiles)
        /\ regLast' = RegResp("upsert_app_scheme", TRUE, r.active, NoPatch,
                              NoName, NoProfiles)

\* dict without the key
DelScheme(schemes, name) == SelectSeq(schemes, LAMBDA s : s.name # name)

\* a delete_app_scheme that lets the last scheme go
delete_app_scheme_last(name) ==
    \E r \in {read_state_normalized(regFile, FALSE)} :
    \E cfg \in {normalize_profile_cfg(r.profiles[r.active])} :
        IF name \notin SchemeNames(cfg.app_schemes)
        THEN /\ Fits(r.profiles)
             /\ regFile' = r.file
             /\ regLast' = RegResp("delete_app_scheme", TRUE, NoName,
                                   NoPatch, NoName, NoProfiles)
        ELSE
        \E schemes \in {DelScheme(cfg.app_schemes, name)} :
        \E new \in {normalize_profile_cfg(
                       [cfg EXCEPT !.app_schemes = schemes,
                                   !.active_app_scheme =
                                       IF @ = name /\ schemes # <<>>
                                       THEN schemes[1].name
                                       ELSE @])} :
        \E profiles \in {Put(r.profiles, r.active, new)} :
            /\ Fits(profiles)
            /\ regFile' = write_state(r.active, profiles)
            /\ regLast' = RegResp("delete_app_scheme", TRUE, r.active,
                                  NoPatch, NoName, NoProfiles)

\* delete_app_scheme(name)
delete_app_scheme(name) ==
    \E r \in {read_state_normalized(regFile, FALSE)} :
    \E cfg \in {normalize_profile_cfg(r.profiles[r.active])} :
        IF name \notin SchemeNames(cfg.app_schemes)
           \/ Len(cfg.app_schemes) <= 1
        THEN /\ Fits(r.profiles)
             /\ regFile' = r.file
             /\ regLast' = RegResp("delete_app_scheme",
                                   name \notin SchemeNames(cfg.app_schemes),
                                   NoName, NoPatch, NoName, NoProfiles)
        ELSE
        \E schemes \in {DelScheme(cfg.app_schemes, name)} :
        \E new \in {normalize_profile_cfg(
                       [cfg EXCEPT !.app_schemes = schemes,
                                   !.active_app_scheme =
                                       IF @ = name THEN schemes[1].name
                                       ELSE @])} :
        \E profiles \in {Put(r.profiles, r.active, new)} :
            /\ Fits(profiles)
            /\ regFile' = write_state(r.active, profiles)
            /\ regLast' = RegResp("delete_app_scheme", TRUE, r.active,
                                  NoPatch, NoName, NoProfiles)

\* a delete_profile that does not protect "default"
delete_profile_any(name) ==
    \E r \in {read_state(regFile)} :
        IF name \notin DOMAIN r.profiles
        THEN /\ regFile' = regFile
             /\ regLast' = RegResp("delete_profile", TRUE, NoName, NoPatch,
                                   NoName, NoProfiles)
        ELSE IF Cardinality(DOMAIN r.profiles) <= 1
        THEN /\ regFile' = regFile
             /\ regLast' = RegResp("delete_profile", FALSE, name, NoPatch,
                                   NoName, NoProfiles)
        ELSE
        \E profiles \in {Remove(r.profiles, name)} :
        \E new_active \in (IF r.active = name THEN DOMAIN profiles
                           ELSE {r.active}) :
            /\ regFile' = write_state(new_active, profiles)
            /\ regLast' = RegResp("delete_profile", TRUE, name, NoPatch,
                                  r.active, NoProfiles)

\* delete_profile(name): "default" and the last profile are refused, a name
\* the file does not hold is ignored, and the first remaining profile
\* becomes active when the active one goes
delete_profile(name) ==
    IF name = DefaultName
    THEN /\ regFile' = regFile
         /\ regLast' = RegResp("delete_profile", FALSE, name, NoPatch,
                               NoName, NoProfiles)
    ELSE
    \E r \in {read_state(regFile)} :
        IF name \notin DOMAIN r.profiles
        THEN /\ regFile' = regFile
             /\ regLast' = RegResp("delete_profile", TRUE, NoName, NoPatch,
                                   NoName, NoProfiles)
        ELSE IF Cardinality(DOMAIN r.profiles) <= 1
        THEN /\ regFile' = regFile
             /\ regLast' = RegResp("delete_profile", FALSE, name, NoPatch,
                                   NoName, NoProfiles)
        ELSE
        \E profiles \in {Remove(r.profiles, name)} :
        \E new_active \in (IF r.active = name THEN DOMAIN profiles
                           ELSE {r.active}) :
            /\ regFile' = write_state(new_active, profiles)
            /\ regLast' = RegResp("delete_profile", TRUE, name, NoPatch,
                                  r.active, NoProfiles)

\* a set_active_profile that writes whatever name it is given
set_active_profile_unchecked(name) ==
    \E r \in {read_state(regFile)} :
        /\ regFile' = write_state(name, r.profiles)
        /\ regLast' = RegResp("set_active_profile", TRUE, name, NoPatch,
                              r.active, NoProfiles)

\* set_active_profile(name): a blank name and a name the file does not
\* hold are refused, the active name is left as it is, any other is
\* written
set_active_profile(name) ==
    IF name = NoName
    THEN /\ regFile' = regFile
         /\ regLast' = RegResp("set_active_profile", FALSE, name, NoPatch,
                               NoName, NoProfiles)
    ELSE
    \E r \in {read_state(regFile)} :
        IF name \notin DOMAIN r.profiles
        THEN /\ regFile' = regFile
             /\ regLast' = RegResp("set_active_profile", FALSE, name,
                                   NoPatch, r.active, NoProfiles)
        ELSE IF name = r.active
        THEN /\ regFile' = regFile
             /\ regLast' = RegResp("set_active_profile", TRUE, name, NoPatch,
                                   r.active, NoProfiles)
        ELSE /\ regFile' = write_state(name, r.profiles)
             /\ regLast' = RegResp("set_active_profile", TRUE, name, NoPatch,
                                   r.active, NoProfiles)

\* clear(): the file holds an empty "default" and nothing else
clear ==
    /\ regFile' = write_state(DefaultName,
                              Put(NoProfiles, DefaultName, EmptyCfg))
    /\ regLast' = RegResp("clear", TRUE, DefaultName, NoPatch, NoName,
                          NoProfiles)

\* set_active_app_scheme(name)
set_active_app_scheme(name) ==
    \E r \in {read_state_normalized(regFile, FALSE)} :
    \E cfg \in {normalize_profile_cfg(r.profiles[r.active])} :
        IF name \notin SchemeNames(cfg.app_schemes)
        THEN /\ Fits(r.profiles)
             /\ regFile' = r.file
             /\ regLast' = RegResp("set_active_app_scheme", FALSE, NoName,
                                   NoPatch, NoName, NoProfiles)
        ELSE
        \E new \in {normalize_profile_cfg(
                       [cfg EXCEPT !.active_app_scheme = name])} :
        \E profiles \in {Put(r.profiles, r.active, new)} :
            /\ Fits(profiles)
            /\ regFile' = write_state(r.active, profiles)
            /\ regLast' = RegResp("set_active_app_scheme", TRUE, r.active,
                                  NoPatch, NoName, NoProfiles)

--------------------------------------------------------------------------
(* build_bundle_zip, member by member: library_sync.py                     *)
(* A text is a sequence of characters, "BOM" standing for U+FEFF.  A JSON  *)
(* value is tagged with its kind; a dict keeps its items in insertion      *)
(* order, as Python does.  A byte string is represented by the value that  *)
(* determines it and SHA-256 by the bytes it digests.                      *)

\* characters a text may hold
MaxText == 2
TextChars == {"BOM", " ", "a"}
Texts == UNION {[1..n -> TextChars] : n \in 0..MaxText}

\* s.lstrip("﻿")
RECURSIVE LStripBom(_)
LStripBom(s) == IF s # <<>> /\ Head(s) = "BOM" THEN LStripBom(Tail(s)) ELSE s

\* a JSON value: None (also an unreadable file), a list, or a dict
J(kind, items) == [kind |-> kind, items |-> items]
JNone == J("none", <<>>)
JList == J("list", <<>>)
JDict(items) == J("dict", items)

\* isinstance(x, dict), bool(x) of a dict or None
isdict(x) == x.kind = "dict"
truthy(x) == x.kind = "dict" /\ x.items # <<>>

\* payload.get(key)
Get(x, key) ==
    LET hits == {i \in DOMAIN x.items : x.items[i][1] = key}
    IN  IF hits = {} THEN <<>> ELSE x.items[CHOOSE i \in hits : TRUE][2]

\* the keys of the modelled dicts, in the order sort_keys gives them
JsonKeys == <<"full_text", "platform", "segments", "url">>
KeyRank(key) == CHOOSE i \in DOMAIN JsonKeys : JsonKeys[i] = key

\* the items of a dict by ascending key
RECURSIVE SortByKey(_)
SortByKey(S) ==
    IF S = {} THEN <<>>
    ELSE LET m == CHOOSE x \in S :
                    \A y \in S : KeyRank(x[1]) <= KeyRank(y[1])
         IN  <<m>> \o SortByKey(S \ {m})

\* json.dumps(obj, ensure_ascii=False, indent=2, sort_keys=True).encode()
canonical_json_bytes(obj) ==
    IF isdict(obj)
    THEN JDict(SortByKey({obj.items[i] : i \in DOMAIN obj.items}))
    ELSE obj

\* _transcript_to_srt: one cue per segment whose text is not blank (every
\* modelled segment starts and ends at 0), else one cue of the full_text
transcript_to_srt(payload) ==
    LET segments == Get(payload, "segments")
        full_text == Strip(Get(payload, "full_text"))
    IN  IF segments # <<>>
        THEN SelectSeq(segments, LAMBDA text : text # "")
        ELSE full_text

\* _sha256_hex
sha256_hex(data) == <<"sha256", data>>

\* a zip member written with the clock's time instead of the fixed one
zipinfo_now(name) == [name |-> name, date_time |-> clock]

\* _zipinfo: the member header, dated 1980-01-01
zipinfo(name) == [name |-> name, date_time |-> 1980]

\* zf.writestr(info, data) when the bytes are not empty; an archive is the
\* record of its possible members, in the order the code writes them
Member(info, present, data) ==
    [info |-> info, present |-> present, data |-> data]

BundleFiles == {"note_md", "transcript_json", "transcript_srt", "audio_json"}

\* bool(data) of the byte string of a member: a text, or canonical JSON
NonEmpty(k, data) ==
    IF k \in {"note_md", "transcript_srt"} THEN data # <<>> ELSE data # JNone

\* content_sha256 without the key of the derived transcript.srt
content_sha256_no_srt(note_bytes, audio_bytes, transcript_bytes, srt_bytes) ==
    LET data == [note_md |-> note_bytes, audio_json |-> audio_bytes,
                 transcript_json |-> transcript_bytes]
    IN  [k \in {x \in DOMAIN data : NonEmpty(x, data[x])} |->
            sha256_hex(data[k])]

\* content_sha256: a key for each byte string that is not empty
content_sha256(note_bytes, audio_bytes, transcript_bytes, srt_bytes) ==
    LET data == [note_md |-> note_bytes, audio_json |-> audio_bytes,
                 transcript_json |-> transcript_bytes,
                 transcript_srt |-> srt_bytes]
    IN  [k \in {x \in DOMAIN data : NonEmpty(x, data[x])} |->
            sha256_hex(data[k])]

\* "files" of meta.json
meta_files(note_bytes, audio_bytes, transcript_bytes, srt_bytes) ==
    [note_md |-> NonEmpty("note_md", note_bytes),
     transcript_json |-> NonEmpty("transcript_json", transcript_bytes),
     transcript_srt |-> NonEmpty("transcript_srt", srt_bytes),
     audio_json |-> NonEmpty("audio_json", audio_bytes)]

\* the archive build_bundle_zip returns.  note_markdown is a text (None is
\* the empty text); audio, transcript and the "request" of extra_meta are
\* JSON values (JNone when extra_meta is None)
bundle_archive(source_key, sync_id, audio, note_markdown, transcript, request) ==
    LET note_text == LStripBom(note_markdown)
        note_bytes == IF Strip(note_text) # <<>> THEN note_text ELSE <<>>
        audio_bytes == IF truthy(audio) THEN canonical_json_bytes(audio)
                       ELSE JNone
        transcript_bytes == IF truthy(transcript)
                            THEN canonical_json_bytes(transcript) ELSE JNone
        srt_text == IF truthy(transcript) THEN transcript_to_srt(transcript)
                    ELSE <<>>
        srt_bytes == IF Strip(srt_text) # <<>> THEN srt_text ELSE <<>>
        meta == [version |-> 1,
                 source_key |-> source_key,
                 sync_id |-> sync_id,
                 created_at_ms |-> source_key[3],
                 files |-> meta_files(note_bytes, audio_bytes,
                                      transcript_bytes, srt_bytes),
                 content_sha256 |->
                     content_sha256(note_bytes, audio_bytes,
                                    transcript_bytes, srt_bytes),
                 request |-> canonical_json_bytes(request)]
    IN  [meta_json |-> Member(zipinfo("meta.json"), TRUE, meta),
         audio_json |->
             Member(zipinfo("audio.json"),
                    NonEmpty("audio_json", audio_bytes), audio_bytes),
         transcript_json |->
             Member(zipinfo("transcript.json"),
                    NonEmpty("transcript_json", transcript_bytes),
                    transcript_bytes),
         transcript_srt |->
             Member(zipinfo("transcript.srt"),
                    NonEmpty("transcript_srt", srt_bytes), srt_bytes),
         note_md |->
             Member(zipinfo("note.md"), NonEmpty("note_md", note_bytes),
                    note_bytes)]

\* the archive of nothing, for a call that built none
NoArchive == bundle_archive(NoKey, NoId, JNone, <<>>, JNone, JNone)

\* hashlib.sha256(bundle).hexdigest()
bundle_sha256(zip) == sha256_hex(zip)

--------------------------------------------------------------------------
(* The bundle builds of sync_push and sync_scan for one task directory     *)
(* item holds:                                                             *)
(*   ts          created_at_ms of the sidecar                              *)
(*   md_exists   <id>_markdown.md exists; md is its text                   *)
(*   tr_state    <id>_transcript.json is "absent", "corrupt" (not JSON) or *)
(*               "json"; tr is its value                                   *)
(*   audio       value of <id>_audio.json, JNone when missing              *)
(*   res_md, res_tr, res_audio, request                                    *)
(*               "markdown", "transcript", "audio_meta", "request" of      *)
(*               <id>.json                                                 *)

ItemSourceKey(it) == make_source_key(Platform, VideoId, it.ts)

\* _read_local_payloads: the files first, <id>.json for what is missing
item_read_local_payloads(it) ==
    LET audio_json == it.audio
        transcript_json == IF it.tr_state = "json" THEN it.tr ELSE JNone
        note_markdown == IF it.md_exists THEN it.md ELSE <<>>
        fall == audio_json = JNone \/ transcript_json = JNone
                    \/ Strip(note_markdown) = <<>>
    IN  [audio |-> IF fall /\ audio_json = JNone /\ isdict(it.res_audio)
                   THEN it.res_audio ELSE audio_json,
         transcript |->
             IF fall /\ transcript_json = JNone /\ isdict(it.res_tr)
             THEN it.res_tr ELSE transcript_json,
         note |-> IF Strip(note_markdown) = <<>> THEN it.res_md
                  ELSE note_markdown]

\* _read_local_request_meta and the extra_meta made of it
item_extra_meta(it) == IF truthy(it.request) THEN it.request ELSE JNone

\* sync_scan's local capability flags: a file with bytes, else <id>.json
item_local_has_note(it) ==
    (it.md_exists /\ it.md # <<>>) \/ Strip(it.res_md) # <<>>
item_local_has_transcript(it) ==
    it.tr_state \in {"corrupt", "json"} \/ isdict(it.res_tr)

\* what a build answered: the code, the include flags and the archive
BuildResult(code, inc, zip) == [code |-> code, inc |-> inc, zip |-> zip]
NoBuild == BuildResult(0, <<FALSE, FALSE>>, NoArchive)

\* sync_push up to the bundle: validation, then build_bundle_zip
push_bundle(it, include_note, include_transcript) ==
    LET pay == item_read_local_payloads(it)
        inc == <<include_note, include_transcript>>
    IN  IF ~isdict(pay.audio) THEN BuildResult(400, inc, NoArchive)
        ELSE IF include_note /\ Strip(pay.note) = <<>>
        THEN BuildResult(400, inc, NoArchive)
        ELSE IF include_transcript /\ ~isdict(pay.transcript)
        THEN BuildResult(400, inc, NoArchive)
        ELSE BuildResult(200, inc,
                 bundle_archive(ItemSourceKey(it),
                     compute_sync_id(ItemSourceKey(it)), pay.audio,
                     IF include_note THEN pay.note ELSE <<>>,
                     IF include_transcript THEN pay.transcript ELSE JNone,
                     item_extra_meta(it)))

\* sync_scan's bundle_sha256_local: built when the item has a note or a
\* transcript
scan_bundle(it) ==
    LET pay == item_read_local_payloads(it)
        lhn == item_local_has_note(it)
        lht == item_local_has_transcript(it)
    IN  IF ~(lhn \/ lht) THEN NoBuild
        ELSE BuildResult(200, <<lhn, lht>>,
                 bundle_archive(ItemSourceKey(it),
                     compute_sync_id(ItemSourceKey(it)),
                     IF isdict(pay.audio) THEN pay.audio ELSE JNone,
                     IF lhn THEN pay.note ELSE <<>>,
                     IF lht /\ isdict(pay.transcript) THEN pay.transcript
                     ELSE JNone,
                     item_extra_meta(it)))

\* no bundle was built
BundleIdle ==
    /\ clock = 0
    /\ item = [ts |-> 0]
    /\ built = [push |-> NoBuild, scan |-> NoBuild]

--------------------------------------------------------------------------
(* Rewriting a JSON file through a temporary file: _write_raw,             *)
(* _atomic_merge_json_file and _atomic_write_json write the text to        *)
(* <path>.tmp and rename it over the path.  The file system is modelled by *)
(* its names and inodes: open(tmp, "w") truncates the inode the name has   *)
(* or creates one, write() stores a chunk at the offset of the descriptor, *)
(* replace() moves the name.                                               *)

\* threads that rewrite the same file
MaxWriters == 2
Writers == 1..MaxWriters

\* write() calls one write_text takes
MaxChunks == 2

\* the two functions: "write" dumps the data it is given, "merge" reads the
\* file first and dumps what it read with its patch applied
WriterKinds == {"write", "merge"}

\* base of a document that was not merged into anything
NoBase == 0 - 2
\* base of a merge that found no JSON in the file: existing = {}
EmptyBase == 0 - 1

\* json.dumps(data): the chunks of the text writer w produces
Document(w, base) ==
    [i \in 1..MaxChunks |-> [by |-> w, on |-> base, part |-> i]]

\* the document the file holds before any of the threads starts
FirstDocument == Document(0, NoBase)

\* a text json.loads accepts: every chunk of one document, in order
IsComplete(text) ==
    /\ Len(text) = MaxChunks
    /\ \A i \in 1..MaxChunks :
          /\ text[i].part = i
          /\ text[i].by = text[1].by
          /\ text[i].on = text[1].on

\* note.py 154-159: existing, {} when the text does not parse
MergeBase(text) == IF IsComplete(text) THEN text[1].by ELSE EmptyBase

\* the bytes a write() leaves in a file: a hole is filled when the offset
\* lies behind the end
Hole == [by |-> 0 - 1, on |-> NoBase, part |-> 0]
WriteAt(text, off, chunk) ==
    [i \in 1..(IF Len(text) > off THEN Len(text) ELSE off + 1) |->
        IF i = off + 1 THEN chunk
        ELSE IF i <= Len(text) THEN text[i]
        ELSE Hole]

\* inode 0 is the file as it was found, inode w the one thread w created
NoInode == 0 - 1
Thread(pc, kind, doc, fd, off) ==
    [pc |-> pc, kind |-> kind, doc |-> doc, fd |-> fd, off |-> off]

\* no thread is rewriting the file
WriteIdle ==
    /\ fs = [path |-> 0, tmp |-> NoInode,
             data |-> [i \in 0..MaxWriters |->
                          IF i = 0 THEN FirstDocument ELSE <<>>]]
    /\ wr = [w \in Writers |->
                Thread("done", "write", FirstDocument, NoInode, 0)]
    /\ seen = FirstDocument

\* note.py 154-161: read the file and merge the patch; the other two
\* functions are handed their data
Prepare(w) ==
    /\ wr[w].pc = "start"
    /\ wr' = [wr EXCEPT
                ![w].doc = IF wr[w].kind = "merge"
                           THEN Document(w, MergeBase(fs.data[fs.path]))
                           ELSE Document(w, NoBase),
                ![w].pc = "open"]
    /\ UNCHANGED <<fs, seen>>

\* tmp.write_text, open(tmp, "w"): the inode behind the name is truncated,
\* a name that does not exist gets a new inode
OpenTmp(w) ==
    /\ wr[w].pc = "open"
    /\ \E inode \in {IF fs.tmp = NoInode THEN w ELSE fs.tmp} :
          /\ fs' = [fs EXCEPT !.tmp = inode, !.data[inode] = <<>>]
          /\ wr' = [wr EXCEPT ![w].fd = inode, ![w].off = 0,
                              ![w].pc = "write"]
    /\ UNCHANGED seen

\* tmp.write_text, one write() of the buffered text; the file is closed
\* after the last one
WriteChunk(w) ==
    /\ wr[w].pc = "write"
    /\ fs' = [fs EXCEPT !.data[wr[w].fd] =
                            WriteAt(@, wr[w].off, wr[w].doc[wr[w].off + 1])]
    /\ wr' = [wr EXCEPT ![w].off = @ + 1,
                        ![w].pc = IF wr[w].off + 1 = MaxChunks
                                  THEN "replace" ELSE "write"]
    /\ UNCHANGED seen

\* tmp.replace(path): FileNotFoundError when the name is gone
ReplaceTmp(w) ==
    /\ wr[w].pc = "replace"
    /\ IF fs.tmp = NoInode
       THEN /\ wr' = [wr EXCEPT ![w].pc = "failed"]
            /\ UNCHANGED fs
       ELSE /\ fs' = [fs EXCEPT !.path = fs.tmp, !.tmp = NoInode]
            /\ wr' = [wr EXCEPT ![w].pc = "done"]
    /\ UNCHANGED seen

\* path.read_text() of a reader
ReadText ==
    /\ seen' = fs.data[fs.path]
    /\ UNCHANGED <<fs, wr>>

--------------------------------------------------------------------------
(* TaskManager (task_manager.py) and the delete_task handler (note.py).    *)
(* Every method holds the lock for its body; cancel is ensure followed by  *)
(* cancel_event.set() outside the lock, so another thread can run between  *)
(* the two.                                                                *)

\* threads that call the TaskManager
MaxThreads == 2
Threads == 1..MaxThreads

\* TaskControls the model lets ensure create
MaxControls == 2

\* task ids after strip(): "" is the missing id
TaskNames == {"", "t1", "t2"}

\* TaskStatus, and "" for a status file that is missing
TaskStatus ==
    {"PENDING", "PARSING", "DOWNLOADING", "TRANSCRIBING", "SUMMARIZING",
     "FORMATTING", "SAVING", "SUCCESS", "FAILED"}
NoStatus == ""

\* a TaskControl is known by its created_at
NoControl == 0

\* a thread between two calls, or inside cancel with the control ensure
\* returned; overtaken: a cleanup of the task id ran since that ensure
Idle == [op |-> "idle", tid |-> "", ctrl |-> NoControl, overtaken |-> FALSE]
InCancel(op, tid, ctrl) ==
    [op |-> op, tid |-> tid, ctrl |-> ctrl, overtaken |-> FALSE]

\* what a call answered: ok is FALSE when it raised (the handler: when it
\* answered R.error)
TmResp(op, tid, ok, ctrl, value) ==
    [op |-> op, tid |-> tid, ok |-> ok, ctrl |-> ctrl, value |-> value]

\* cancels of a task id since its last cleanup: one has returned; one has
\* returned that no cleanup overtook.  running: run_note_task, the one
\* caller of ensure besides cancel, has ensured the task id since then
NoCancel == [returned |-> FALSE, effective |-> FALSE, running |-> FALSE]

\* is_cancelled(task_id)
is_cancelled(tid) ==
    /\ tid # ""
    /\ tid \in DOMAIN tasks
    /\ tasks[tid] \in cancel_event

\* the body of ensure under the lock: the control of the task id, created
\* when there is none
Ensured(tid) ==
    IF tid \in DOMAIN tasks THEN tasks
    ELSE [t \in DOMAIN tasks \cup {tid} |->
            IF t = tid THEN created + 1 ELSE tasks[t]]

\* an ensure that always makes a new control
ensure_fresh(th, tid) ==
    /\ threads[th] = Idle
    /\ IF tid = ""
       THEN /\ tmLast' = TmResp("ensure", tid, FALSE, NoControl, FALSE)
            /\ UNCHANGED <<tasks, created>>
       ELSE /\ created < MaxControls
            /\ tasks' = [t \in DOMAIN tasks \cup {tid} |->
                            IF t = tid THEN created + 1 ELSE tasks[t]]
            /\ created' = created + 1
            /\ tmLast' = TmResp("ensure", tid, TRUE, tasks'[tid], FALSE)
    /\ hist' = IF tid = "" THEN hist ELSE [hist EXCEPT ![tid].running = TRUE]
    /\ UNCHANGED <<cancel_event, threads, task_status>>

\* ensure(task_id)
ensure(th, tid) ==
    /\ threads[th] = Idle
    /\ IF tid = ""
       THEN /\ tmLast' = TmResp("ensure", tid, FALSE, NoControl, FALSE)
            /\ UNCHANGED <<tasks, created>>
       ELSE /\ tid \in DOMAIN tasks \/ created < MaxControls
            /\ tasks' = Ensured(tid)
            /\ created' = IF tid \in DOMAIN tasks THEN created
                           ELSE created + 1
            /\ tmLast' = TmResp("ensure", tid, TRUE, tasks'[tid], FALSE)
    /\ hist' = IF tid = "" THEN hist ELSE [hist EXCEPT ![tid].running = TRUE]
    /\ UNCHANGED <<cancel_event, threads, task_status>>

\* cancel(task_id), first half: ctrl = self.ensure(task_id).  op is "cancel"
\* for a direct call and "delete_task" for the call of the handler
cancel_ensure(th, tid, op) ==
    /\ threads[th] = Idle
    /\ IF tid = ""
       THEN /\ tmLast' = TmResp(op, tid, op = "delete_task", NoControl,
                                 FALSE)
            /\ UNCHANGED <<tasks, created, threads>>
       ELSE /\ tid \in DOMAIN tasks \/ created < MaxControls
            /\ tasks' = Ensured(tid)
            /\ created' = IF tid \in DOMAIN tasks THEN created
                           ELSE created + 1
            /\ threads' = [threads EXCEPT
                              ![th] = InCancel(op, tid, tasks'[tid])]
            /\ UNCHANGED tmLast
    /\ UNCHANGED <<cancel_event, task_status, hist>>

\* cancel(task_id), second half: ctrl.cancel_event.set()
cancel_set(th) ==
    /\ threads[th].op \in {"cancel", "delete_task"}
    /\ threads[th].ctrl # NoControl
    /\ cancel_event' = cancel_event \cup {threads[th].ctrl}
    /\ hist' = [hist EXCEPT
                  ![threads[th].tid] =
                     [returned |-> TRUE,
                      effective |-> @.effective
                                      \/ ~threads[th].overtaken,
                      running |-> @.running]]
    /\ IF threads[th].op = "cancel"
       THEN /\ threads' = [threads EXCEPT ![th] = Idle]
            /\ tmLast' = TmResp("cancel", threads[th].tid, TRUE,
                                 threads[th].ctrl, FALSE)
       ELSE /\ threads' = [threads EXCEPT ![th].ctrl = NoControl]
            /\ UNCHANGED tmLast
    /\ UNCHANGED <<tasks, created, task_status>>

\* delete_task after the cancel, note.py 599-617: the status is read, and
\* the tuple of line 608 names TaskStatus.CANCELLED, which the enum does
\* not have: AttributeError, caught by line 621, R.error
delete_task(th) ==
    /\ threads[th].op = "delete_task"
    /\ threads[th].ctrl = NoControl
    /\ threads' = [threads EXCEPT ![th] = Idle]
    /\ tmLast' = TmResp("delete_task", threads[th].tid, FALSE, NoControl,
                         FALSE)
    /\ UNCHANGED <<tasks, cancel_event, created, task_status, hist>>

\* a call of is_cancelled(task_id) and its answer
poll(th, tid) ==
    /\ threads[th] = Idle
    /\ tmLast' = TmResp("is_cancelled", tid, TRUE, NoControl,
                         is_cancelled(tid))
    /\ UNCHANGED <<tasks, cancel_event, created, threads, task_status, hist>>

\* cleanup(task_id)
cleanup(th, tid) ==
    /\ threads[th] = Idle
    /\ IF tid = ""
       THEN UNCHANGED <<tasks, threads, hist>>
       ELSE /\ tasks' = [t \in DOMAIN tasks \ {tid} |-> tasks[t]]
            /\ threads' = [x \in Threads |->
                              IF threads[x].tid = tid
                                 /\ threads[x].ctrl # NoControl
                              THEN [threads[x] EXCEPT !.overtaken = TRUE]
                              ELSE threads[x]]
            /\ hist' = [hist EXCEPT ![tid] = NoCancel]
    /\ tmLast' = TmResp("cleanup", tid, TRUE, NoControl, FALSE)
    /\ UNCHANGED <<cancel_event, created, task_status>>

\* no thread is in the TaskManager
TaskIdle ==
    /\ tasks = [t \in {} |-> NoControl]
    /\ cancel_event = {}
    /\ created = 0
    /\ threads = [th \in Threads |-> Idle]
    /\ task_status = [t \in TaskNames \ {""} |-> NoStatus]
    /\ hist = [t \in TaskNames \ {""} |-> NoCancel]
    /\ tmLast = TmResp("init", "", TRUE, NoControl, FALSE)

--------------------------------------------------------------------------
(* sync_pull, file by file.  task_dir holds, for the task directory the    *)
(* pull resolves (the one of the local item with the source_key, or        *)
(* <sync_id>), the state of each file: "" missing or empty, "local" what   *)
(* was there before, "pulled" what sync_pull wrote.                        *)

\* the files sync_pull may write, and the sidecar ensure_local_sync_meta
\* keeps
PullFiles == {"md", "transcript", "audio", "result", "status"}

\* the identity a pull asks for, and another one
PullKey == KeyOf(1)
OtherKey == KeyOf(2)

\* no bundle-sha256 in the metadata of the object
NoSha == bundle_sha256(bundle_archive(NoKey, NoId, JNone, <<>>, JNone, JList))

\* the object of the bucket: the archive, the bundle-sha256 its metadata
\* advertises, and whether a tombstone lies next to it
Remote(exists, zip, advertised, tombstone) ==
    [exists |-> exists, zip |-> zip, advertised |-> advertised,
     tombstone |-> tombstone]

\* what sync_pull answered: downloaded is TRUE when get_bytes returned,
\* advertised is the bundle-sha256 the handler read (NoSha when the stat
\* raised or the metadata has none)
PullResp(code, source_key, overwrite, downloaded, advertised) ==
    [code |-> code, source_key |-> source_key, overwrite |-> overwrite,
     downloaded |-> downloaded, advertised |-> advertised]

\* a pull that answers success whatever it wrote
pull_code_always(wrote_any, overwrite) == 200

\* sync.py 1166-1169: the answer of a pull that reached its writes
pull_code(wrote_any, overwrite) ==
    IF ~wrote_any /\ ~overwrite THEN 409 ELSE 200

\* sync_pull(source_key, overwrite); fault: "none", or the storage call
\* that raises: "tomb", "stat", "get"
pull_files(source_key, overwrite, fault) ==
    LET sync_id == compute_sync_id(source_key)
        blocked == fault # "tomb" /\ remote.tombstone
        remote_bundle_sha256 ==
            IF fault = "stat" \/ ~remote.exists THEN NoSha
            ELSE remote.advertised
        got == fault # "get" /\ remote.exists
        zip == remote.zip
        meta_json == zip.meta_json.data
        note_md == IF zip.note_md.present THEN zip.note_md.data ELSE <<>>
        has_transcript ==
            zip.transcript_json.present /\ truthy(zip.transcript_json.data)
        w == [f \in PullFiles |->
                /\ should_write(overwrite, task_dir[f])
                /\ f = "md" => Strip(note_md) # <<>>
                /\ f = "transcript" => has_transcript]
        wrote_any == \E f \in PullFiles : w[f]
        code == IF blocked THEN 410
                ELSE IF ~got THEN 500
                ELSE IF remote_bundle_sha256 # NoSha
                        /\ bundle_sha256(zip) # remote_bundle_sha256
                THEN 500
                ELSE IF meta_json.sync_id # NoId
                        /\ meta_json.sync_id # sync_id THEN 500
                ELSE IF meta_json.source_key # NoKey
                        /\ meta_json.source_key # source_key THEN 400
                ELSE pull_code(wrote_any, overwrite)
    IN  /\ pulled' = PullResp(code, source_key, overwrite, ~blocked /\ got,
                              remote_bundle_sha256)
        /\ task_dir' =
              IF code \in {200, 409}
              THEN [f \in PullFiles \cup {"sync_meta"} |->
                      IF f = "sync_meta" \/ w[f] THEN "pulled"
                      ELSE task_dir[f]]
              ELSE task_dir
        /\ UNCHANGED remote

\* the user or the note task rewrites a file of the directory
touch_file(f, content) ==
    /\ task_dir[f] # content
    /\ task_dir' = [task_dir EXCEPT ![f] = content]
    /\ UNCHANGED <<remote, pulled>>

\* no pull is under way
PullIdle ==
    /\ task_dir = [f \in PullFiles \cup {"sync_meta"} |-> ""]
    /\ remote = Remote(FALSE, NoArchive, NoSha, FALSE)
    /\ pulled = PullResp(0, NoKey, FALSE, FALSE, NoSha)

--------------------------------------------------------------------------
(* The identity files of one task directory: library_sync.py, note.py.     *)
(* ident holds, for the task id:                                           *)
(*   sidecar    created_at_ms and source_key of <id>.sync.json, NoSidecar  *)
(*              when the file is missing                                   *)
(*   result_ms  "sync.created_at_ms" of <id>.json / <id>.status.json, 0    *)
(*              when they carry no sync block                              *)
(*   mtime      the earliest mtime of <id>.status.json, <id>.json and      *)
(*              <id>_markdown.md                                           *)
(*   now        the wall clock, in milliseconds                            *)
(*   ret        op, created_at_ms and source_key the last call computed    *)
(* <id>_audio.json carries Platform, VideoId and Title throughout.         *)

MaxNow == 8

Sidecar(created_at_ms, source_key) ==
    [created_at_ms |-> created_at_ms, source_key |-> source_key]
NoSidecar == Sidecar(0, NoKey)

Ident(sidecar, result_ms, mtime, now, op) ==
    [sidecar |-> sidecar, result_ms |-> result_ms, mtime |-> mtime,
     now |-> now,
     ret |-> [op |-> op, created_at_ms |-> sidecar.created_at_ms,
              source_key |-> sidecar.source_key]]

\* ensure_local_sync_meta for the platform, video id and title of the
\* audio metadata: the sidecar written or found; prefer_ms 0 stands for None
ensure_sidecar(existing, prefer_ms, mtime) ==
    IF existing # NoSidecar
       /\ (prefer_ms = 0
            \/ (existing.created_at_ms = prefer_ms
                  /\ existing.source_key = KeyOf(prefer_ms)))
    THEN existing
    ELSE IF prefer_ms > 0 THEN Sidecar(prefer_ms, KeyOf(prefer_ms))
    ELSE Sidecar(mtime, KeyOf(mtime))

\* load_local_note_item, and scan_local_notes for this task: the preferred
\* created_at_ms is read from the result and status files
load_local_note_item ==
    ident' = Ident(ensure_sidecar(ident.sidecar, ident.result_ms, ident.mtime),
                   ident.result_ms, ident.mtime, ident.now, "load")

\* run_note_task on the task id at a later time: the result file is saved
\* with the sync block of this run, then the sidecar is ensured with this
\* run's created_at_ms
rerun_note_task ==
    /\ ident.now < MaxNow
    /\ \E created_at_ms \in (ident.now + 1)..MaxNow :
          ident' = Ident(ensure_sidecar(ident.sidecar, created_at_ms,
                                        created_at_ms),
                         created_at_ms, created_at_ms, created_at_ms, "run")

\* the result, status and markdown files are written again with what they
\* hold
rewrite_files ==
    /\ ident.now < MaxNow
    /\ \E now \in (ident.now + 1)..MaxNow :
          ident' = [ident EXCEPT !.now = now, !.mtime = now,
                                 !.ret.op = "rewrite"]

\* no call on the identity files was made
IdentIdle == ident = Ident(NoSidecar, 0, 1, 1, "init")

--------------------------------------------------------------------------
(* _list_all_documents and _find_document_by_name, page by page: sync.py.  *)
(* pager holds the call in progress: fn ("list" or "find"), pc ("loop"     *)
(* before a list_documents call, "done" after the return), page, the       *)
(* number of list_documents calls made, and how the call ended.  A server  *)
(* response is its kind ("dict", "other" for anything that is not a dict,  *)
(* "raise" for a DifyError), its has_more flag and, for a find, whether    *)
(* the batch holds a document with the name.                               *)

\* the last page either loop asks for
PageCap == 200

Pager(fn, pc, page, calls, result) ==
    [fn |-> fn, pc |-> pc, page |-> page, calls |-> calls, result |-> result]

\* a loop without the cap
over_cap_never(page) == FALSE

\* if page > 200: break / return None
over_cap(page) == page > PageCap

\* one pass of the while loop of either function
list_documents_pass(kind, has_more, hit) ==
    /\ pager.pc = "loop"
    /\ pager' =
         LET calls == pager.calls + 1
             end(result) == Pager(pager.fn, "done", pager.page, calls, result)
         IN  IF kind = "raise" THEN end("raise")
             ELSE IF kind = "other" THEN end("none")
             ELSE IF pager.fn = "find" /\ hit THEN end("doc")
             ELSE IF ~has_more THEN end("none")
             ELSE IF over_cap(pager.page + 1) THEN end("cap")
             ELSE Pager(pager.fn, "loop", pager.page + 1, calls, "")

\* a call of one of the two functions; blank: the name of a find is blank
\* and the find returns before its loop
list_documents_call(fn, blank) ==
    /\ pager.pc = "done"
    /\ pager' = IF fn = "find" /\ blank THEN Pager(fn, "done", 1, 0, "none")
                ELSE Pager(fn, "loop", 1, 0, "")

\* no call was made
PagerIdle == pager = Pager("list", "done", 1, 0, "none")

--------------------------------------------------------------------------
(* run_note_task, statement by statement, next to a request that cancels   *)
(* the task: note.py.  run holds the position of the background task (pc), *)
(* the two switches AUTO_MINIO_BUNDLE_ON_GENERATE and                      *)
(* AUTO_DIFY_INGEST_ON_GENERATE, whether task_manager.cancel(task_id) has  *)
(* returned since the run began, the files of the task directory, whether  *)
(* the bundle object exists and the RAG documents created.                 *)
(* NoteGenerator.generate answers in any way: a note, nothing, or an       *)
(* exception (a TaskCancelledError among them).                            *)

\* the files of the task directory; "dify_error" is the key of that name in
\* the status file
RunFiles == {"status", "result", "sidecar", "dify_error"}
RunSides == {"transcript", "note"}

Run(pc, auto_minio, auto_dify, cancelled, dir, bundle, created_docs) ==
    [pc |-> pc, auto_minio |-> auto_minio, auto_dify |-> auto_dify,
     cancelled |-> cancelled, dir |-> dir, bundle |-> bundle,
     docs |-> created_docs]

\* task_manager.ensure(task_id) of line 362, with the environment the run
\* will read
run_ensure(auto_minio, auto_dify) ==
    /\ run.pc = "idle"
    /\ run' = [run EXCEPT !.pc = "request", !.auto_minio = auto_minio,
                           !.auto_dify = auto_dify, !.cancelled = FALSE]

\* lines 381-386: mkdir and the merge of the request into the status file,
\* best effort
run_request(fails) ==
    /\ run.pc = "request"
    /\ run' = [run EXCEPT !.pc = "generate",
                           !.dir = IF fails THEN @ ELSE @ \cup {"status"}]

\* lines 388-408: generator.generate(...) and the early return
run_generate(outcome) ==
    /\ run.pc = "generate"
    /\ run' = [run EXCEPT !.pc = CASE outcome = "note" -> "save"
                                   [] outcome = "empty" -> "cleanup"
                                   [] OTHER -> "except"]

\* lines 410-439: save_note_to_file, then ensure_local_sync_meta, best
\* effort
run_save(saveFails, metaFails) ==
    /\ run.pc = "save"
    /\ run' = IF saveFails THEN [run EXCEPT !.pc = "except"]
              ELSE [run EXCEPT !.pc = "minio",
                               !.dir = @ \cup {"result"}
                                         \cup (IF metaFails THEN {}
                                               ELSE {"sidecar"})]

\* lines 462-482: the upload of the bundle, when switched on
run_minio(fails) ==
    /\ run.pc = "minio"
    /\ run' = [run EXCEPT !.pc = "dify",
                           !.bundle = @ \/ (run.auto_minio /\ ~fails)]

\* lines 484-574: the two create_document_by_text calls, when switched on;
\* failed: the sides whose call raised DifyError
run_dify(failed) ==
    /\ run.pc = "dify"
    /\ run' = IF run.auto_dify
              THEN [run EXCEPT !.pc = "cleanup",
                               !.docs = @ \cup (RunSides \ failed),
                               !.dir = @ \cup {"result", "status"}]
              ELSE [run EXCEPT !.pc = "cleanup"]

\* lines 575-582: the handlers merge dify_error into the status file
run_except ==
    /\ run.pc = "except"
    /\ run' = [run EXCEPT !.pc = "cleanup",
                           !.dir = @ \cup {"status", "dify_error"}]

\* lines 583-584: finally task_manager.cleanup(task_id)
run_cleanup ==
    /\ run.pc = "cleanup"
    /\ run' = [run EXCEPT !.pc = "idle", !.cancelled = FALSE]

\* task_manager.cancel(task_id), called directly or by delete_task (line
\* 597), for a task that is running.  delete_task goes on to line 608,
\* which raises AttributeError: no file is removed
run_cancel ==
    /\ run.pc # "idle"
    /\ ~run.cancelled
    /\ run' = [run EXCEPT !.cancelled = TRUE]

\* no task has run
RunIdle == run = Run("idle", FALSE, FALSE, FALSE, {}, FALSE, {})

--------------------------------------------------------------------------
(* The names sync_push gives the two RAG documents of an item and what the *)
(* next sync_scan reads back from them, for titles, platforms and video    *)
(* ids of several tokens: rag_service.py, library_sync.py, sync.py.        *)
(* named holds the item (title, platform, video_id as scan_local_notes     *)
(* returns them: stripped, platform and video_id not empty), the two names *)
(* once pushed, and the answer of the scan for the item.                   *)

\* f"{p}:{vid}:{int(created_at_ms)}" on tokens
source_key_text(platform, video_id, created_at_ms) ==
    Strip(platform) \o <<":">> \o Strip(video_id)
        \o <<":", ToStr(created_at_ms)>>

\* build_rag_document_name on tokens
rag_document_name(title, platform, video_id, created_at_ms) ==
    LET safe_title == IF Strip(title) = <<>> THEN <<"Untitled">>
                      ELSE Strip(title)
        safe_video_id == IF Strip(video_id) = <<>> THEN <<"unknown">>
                         ELSE Strip(video_id)
        tag == platform \o <<":">> \o safe_video_id
                 \o (IF created_at_ms > 0 THEN <<":", ToStr(created_at_ms)>>
                     ELSE <<>>)
    IN  safe_title \o <<" ", "[">> \o tag \o <<"]">>

NoParts == [ok |-> FALSE, title |-> <<>>, platform |-> <<>>,
            video_id |-> <<>>, created_at_ms |-> 0]

\* parse_dify_sync_tag on names whose parts may hold several tokens
parse_tag(name) ==
    LET n == Strip(name)
        right == RFind(n, "]", Len(n))
        left == RFind(n, "[", right - 1)
        parts == SplitColon(Strip(SubSeq(n, left + 1, right - 1)))
    IN  IF right = 0 \/ left = 0 THEN NoParts
        ELSE IF Len(parts) < 2 THEN NoParts
        ELSE IF parts[1] = <<>> \/ parts[2] = <<>> THEN NoParts
        ELSE [ok |-> TRUE,
              title |-> Strip(SubSeq(n, 1, left - 1)),
              platform |-> parts[1],
              video_id |-> parts[2],
              created_at_ms |->
                  IF Len(parts) >= 3 /\ Len(parts[3]) = 1
                     /\ isdigit(parts[3][1])
                  THEN ToInt(parts[3][1]) ELSE 0]

\* a listing that keeps the names holding the suffix of the other kind
remote_side_unfiltered(name, other_suffix) ==
    LET parsed == parse_tag(name)
    IN  IF ~parsed.ok THEN [kind |-> "unparsed", key |-> <<>>]
        ELSE IF parsed.created_at_ms = 0
        THEN [kind |-> "legacy", key |-> <<>>]
        ELSE [kind |-> "keyed",
              key |-> source_key_text(parsed.platform, parsed.video_id,
                                      parsed.created_at_ms)]

\* what the listing of one dataset makes of a document name: skipped by
\* the suffix filter, unparsed, legacy, or keyed by a source key
remote_side(name, other_suffix) ==
    IF Contains(name, other_suffix) THEN [kind |-> "filtered", key |-> <<>>]
    ELSE remote_side_unfiltered(name, other_suffix)

Named(pc, title, platform, video_id, created_at_ms, names, status, others) ==
    [pc |-> pc, title |-> title, platform |-> platform,
     video_id |-> video_id, created_at_ms |-> created_at_ms,
     names |-> names, status |-> status, others |-> others]

\* sync_push with include_note, include_transcript and update_dify that
\* answers success without dify_error: the bundle is stored, no tombstone
\* is left, and the two documents are created under their names
name_push ==
    /\ named.pc = "local"
    /\ named' =
         LET base_name == rag_document_name(named.title, named.platform,
                              named.video_id, named.created_at_ms)
         IN  [named EXCEPT !.pc = "pushed",
                           !.names = <<base_name \o <<" ", "(note)">>,
                                       base_name \o <<" ", "(transcript)">>>>]

\* the next sync_scan: the two listings, the join with the local item and
\* its status; others: the kinds of the entries made next to the item
name_scan ==
    /\ named.pc = "pushed"
    /\ named' =
         LET source_key == source_key_text(named.platform, named.video_id,
                                           named.created_at_ms)
             remote_note == remote_side(named.names[1], "(transcript)")
             remote_transcript == remote_side(named.names[2], "(note)")
             joined(r) == r.kind = "keyed" /\ r.key = source_key
             rhn == joined(remote_note)
             rht == joined(remote_transcript)
             apart == {r \in {remote_note, remote_transcript} :
                          r.kind = "legacy"
                          \/ (r.kind = "keyed" /\ r.key # source_key)}
         IN  [named EXCEPT
                !.pc = "scanned",
                !.status = FinalStatus(BaseStatus(TRUE, TRUE, TRUE, rhn, rht),
                                       TRUE, rhn \/ rht, "false", "true",
                                       FALSE, FALSE),
                !.others = {IF r.kind = "legacy" THEN "LEGACY"
                            ELSE "DIFY_ONLY" : r \in apart}]

\* titles, platforms and video ids of the model, as token sequences
NameTitles ==
    { <<"T">>, <<>>, <<"T", " ", "(transcript)">>, <<"(Note)", " ", "T">>,
      <<"T", " ", "[", "x", ":", "y", "]">>, <<"T", ":", " ", "2">> }
NamePlatforms == { <<"bilibili">>, <<"local">> }
NameVideoIds ==
    { <<"BV1">>, <<"a", " ", "b">>, <<"a", ":", "b">>, <<"a", ":", "7">>,
      <<"a", "]">>, <<"[", "a">>, <<"x", "(note)">>, <<"7">> }

\* no item is followed
NameIdle ==
    named = Named("idle", <<>>, <<>>, <<>>, 0, <<>>, "", {})

--------------------------------------------------------------------------
(* Two sync_copy calls of the same source_key running in the worker        *)
(* threads of the server: sync.py. copies holds, for each call, where it   *)
(* stands (idle, probe, put, write, done, failed), the created_at_ms it    *)
(* was given, the created_at_ms variable, the probes left and the          *)
(* created_at_ms of the key it ended with; and, shared by both, who wrote  *)
(* the task directory and the bundle object of each created_at_ms          *)
(* (0: nobody, 3: another item)                                            *)

\* the largest created_at_ms a request gives
MaxCopyMs == 2

CopyThreads == {1, 2}

\* the created_at_ms values the probes can reach
CopySlots == 1..(MaxCopyMs + 1)

Copier(pc, req, created_at_ms, left, key) ==
    [pc |-> pc, req |-> req, created_at_ms |-> created_at_ms, left |-> left,
     key |-> key]

NoCopier == Copier("idle", 0, 0, 0, 0)

\* the request arrives: created_at_ms is new_created_at_ms, or the clock
copy_call(th, new_ms) ==
    /\ copies.th[th].pc = "idle"
    /\ copies' = [copies EXCEPT
                    !.th[th] = Copier("probe", new_ms, new_ms, CopyProbes, 0)]

\* one round of the loop that looks for a free identity; statFails: the
\* stat call raises
copy_probe(th, statFails) ==
    LET me == copies.th[th]
        exists_local == copies.dirs[me.created_at_ms] # 0
        exists_remote == ~statFails /\ copies.objs[me.created_at_ms] # 0
    IN  /\ me.pc = "probe"
        /\ IF ~exists_local /\ ~exists_remote
           THEN copies' = [copies EXCEPT
                             !.th[th].pc = "put",
                             !.th[th].key = me.created_at_ms]
           ELSE IF me.left = 1
           THEN /\ me.created_at_ms + 1 \in CopySlots
                /\ copies' = [copies EXCEPT
                                !.th[th].pc = "put",
                                !.th[th].key = me.created_at_ms,
                                !.th[th].created_at_ms = @ + 1]
           ELSE /\ me.created_at_ms + 1 \in CopySlots
                /\ copies' = [copies EXCEPT
                                !.th[th].created_at_ms = @ + 1,
                                !.th[th].left = @ - 1]

\* the upload of the bundle: put_bytes replaces the object of the key
copy_put(th, fails) ==
    LET me == copies.th[th]
    IN  /\ me.pc = "put"
        /\ IF fails
           THEN copies' = [copies EXCEPT !.th[th].pc = "failed"]
           ELSE copies' = [copies EXCEPT !.th[th].pc = "write",
                                         !.objs[me.key] = th]

\* the local files: mkdir(exist_ok) and write_text of every file
copy_write(th) ==
    LET me == copies.th[th]
    IN  /\ me.pc = "write"
        /\ copies' = [copies EXCEPT !.th[th].pc = "done",
                                    !.dirs[me.key] = th]

\* no copy is running and no copy was made
CopyIdle ==
    copies = [th |-> [t \in CopyThreads |-> NoCopier],
              dirs |-> [ms \in CopySlots |-> 0],
              objs |-> [ms \in CopySlots |-> 0]]

--------------------------------------------------------------------------
(* The synchronisation state machine                                       *)

Empty == [x \in {} |-> NoBundle]

\* nothing local, nothing remote, no call made yet
SyncFresh ==
    /\ files = Empty
    /\ objects = Empty
    /\ tombstones = {}
    /\ docs = {}
    /\ last = Fail("init", 0, NoKey)

SyncInit ==
    SyncFresh /\ cache = {} /\ table = {} /\ IdentIdle /\ PagerIdle /\ RunIdle
        /\ NameIdle /\ CopyIdle

\* requests leave include_transcript at its default
TranscriptFlags == {TRUE}

\* a call of the sync side leaves the registry file alone
Tick ==
    UNCHANGED <<regVars, bundleVars, writeVars, taskVars, pullVars, table,
                ident, pager, run, named, copies>>

Generate ==
    \E t \in Uuids, now \in Stamps, md \in Notes, failed \in SUBSET Sides :
        Tick /\ run_note_task(t, now, md, failed)

RemoveDir == \E t \in TaskIds : Tick /\ RemoveTaskDir(t)

Edit == \E t \in TaskIds, md \in Notes : Tick /\ EditNote(t, md)

Foreign == \E d \in LegacyDocs : Tick /\ ForeignDoc(d)

Push ==
    \E t \in TaskIds, include_note \in BOOLEAN,
       include_transcript \in TranscriptFlags,
       update_dify \in BOOLEAN, fault \in {"none", "tomb", "stat", "put"} :
        \E failed \in IF update_dify /\ fault = "none" THEN SUBSET Sides
                      ELSE {{}} :
            Tick /\ sync_push(t, include_note, include_transcript, update_dify,
                              fault, failed)

Pull ==
    \E sk \in Keys, overwrite \in BOOLEAN,
       fault \in {"none", "tomb", "stat", "get"} :
        Tick /\ sync_pull(sk, overwrite, fault)

Copy ==
    \E sk \in Keys, from_side \in {"local", "remote"},
       create_dify_docs \in BOOLEAN, include_note \in BOOLEAN,
       include_transcript \in TranscriptFlags, new_ms \in Stamps :
        \E fault \in IF from_side = "remote"
                     THEN {"none", "get", "stat", "put"}
                     ELSE {"none", "stat", "put"} :
            \E failed \in IF create_dify_docs /\ fault = "none"
                          THEN SUBSET Sides ELSE {{}} :
                Tick /\ sync_copy(sk, from_side, create_dify_docs,
                                  include_note, include_transcript, new_ms,
                                  fault, failed)

DeleteRemote ==
    \E sk \in Keys, delete_dify \in BOOLEAN, with_ids \in BOOLEAN,
       fault \in {"none", "put"} :
        Tick /\ sync_delete_remote(
                    sk, delete_dify,
                    IF with_ids THEN RemoteDoc(NoteDataset, "(transcript)", sk)
                    ELSE NoDoc,
                    IF with_ids THEN RemoteDoc(TranscriptDataset, "(note)", sk)
                    ELSE NoDoc,
                    fault, {})

Scan ==
    \E fault \in {"none", "dify", "tomb", "bundle", "db"} :
        Tick /\ sync_scan(fault = "dify", fault = "tomb", fault = "bundle",
                          fault = "db")

\* no registry call was made yet
RegNone == RegResp("init", TRUE, NoName, NoPatch, NoName, NoProfiles)

Init ==
    /\ SyncInit
    /\ regFile = NoFile
    /\ regLast = RegNone
    /\ BundleIdle
    /\ WriteIdle
    /\ TaskIdle
    /\ PullIdle

Next ==
    \/ Generate
    \/ RemoveDir
    \/ Edit
    \/ Foreign
    \/ Push
    \/ Pull
    \/ Copy
    \/ DeleteRemote
    \/ Scan

Spec == Init /\ [][Next]_vars

--------------------------------------------------------------------------
(* The registry state machine                                              *)

\* the files a first call can find: none; the flat dict of the first
\* versions; version 2 documents written before "default" became a
\* template and before schemes existed
RegInitFiles ==
    { NoFile,
      File(TRUE, TRUE, DefaultName,
           Put(NoProfiles, DefaultName,
               Cfg({"base_url", "app_api_key"}, "http://h", "k1", NoName,
                   <<>>))),
      File(TRUE, FALSE, DefaultName,
           Put(NoProfiles, DefaultName,
               Cfg({"app_schemes", "active_app_scheme"}, "", "",
                   DEFAULT_APP_SCHEME,
                   <<Scheme(DEFAULT_APP_SCHEME, TRUE, "k1")>>))),
      File(TRUE, FALSE, Name("p"),
           Put(Put(NoProfiles, DefaultName, EmptyCfg), Name("p"),
               Cfg({"base_url", "app_api_key", "app_schemes",
                    "active_app_scheme"}, "http://h", "k2", Name("s"),
                   <<Scheme(DEFAULT_APP_SCHEME, FALSE, ""),
                     Scheme(Name("s"), FALSE, "")>>))),
      File(TRUE, FALSE, Name("p"),
           Put(NoProfiles, Name("p"),
               Cfg({"base_url"}, "http://h", "", NoName, <<>>))) }

RegInit ==
    /\ SyncInit
    /\ regFile \in RegInitFiles
    /\ regLast = RegNone
    /\ BundleIdle
    /\ WriteIdle
    /\ TaskIdle
    /\ PullIdle

\* a call of the registry leaves the stores of the sync side alone
Tock == UNCHANGED <<syncVars, bundleVars, writeVars, taskVars, pullVars>>

Patches ==
    {Patch(None, None, k) : k \in {None, "k1"}}
        \cup {Patch("http://h:8443", "ds-abcdef1234", k) : k \in {None, "k1"}}
ProfileNames == {DefaultName, Name("p")}
AppSchemeNames == {DEFAULT_APP_SCHEME, Name("main"), Name("s")}

Read == \E pf \in BOOLEAN : Tock /\ list_profiles(pf)

Update == \E patch \in Patches : Tock /\ update(patch)

UpsertProfile ==
    \E name \in ProfileNames, patch \in Patches,
       clone_from \in {NoName, DefaultName}, activate \in BOOLEAN :
        Tock /\ upsert_profile(name, patch, clone_from, activate)

UpsertAppScheme ==
    \E name \in AppSchemeNames, key \in {None, "", "k1"},
       activate \in BOOLEAN :
        Tock /\ upsert_app_scheme(name, key, activate)

DeleteAppScheme ==
    \E name \in AppSchemeNames : Tock /\ delete_app_scheme(name)

SetActiveAppScheme ==
    \E name \in AppSchemeNames : Tock /\ set_active_app_scheme(name)

DeleteProfile ==
    \E name \in ProfileNames \cup DOMAIN read_state(regFile).profiles :
        Tock /\ delete_profile(name)

RegNext ==
    \/ Read
    \/ DeleteProfile
    \/ Update
    \/ UpsertProfile
    \/ UpsertAppScheme
    \/ DeleteAppScheme
    \/ SetActiveAppScheme

RegSpec == RegInit /\ [][RegNext]_vars

\* the registry with the calls that choose the active profile and that
\* reset the file
SetActiveProfile ==
    \E name \in ProfileNames \cup {NoName} : Tock /\ set_active_profile(name)

Clear == Tock /\ clear

\* the inputs of the calls that write a cfg: whether a patch carries values
\* and whether a scheme is new decide what is written, not which values
ProfPatches == {NoPatch, Patch("http://h:8443", "ds-abcdef1234", "k1")}
ProfSchemeNames == {DEFAULT_APP_SCHEME, Name("main")}

ProfUpdate == \E patch \in ProfPatches : Tock /\ update(patch)

ProfUpsertProfile ==
    \E name \in ProfileNames, patch \in ProfPatches,
       clone_from \in {NoName, DefaultName}, activate \in BOOLEAN :
        Tock /\ upsert_profile(name, patch, clone_from, activate)

ProfUpsertAppScheme ==
    \E name \in ProfSchemeNames, key \in {None, "k1"}, activate \in BOOLEAN :
        Tock /\ upsert_app_scheme(name, key, activate)

ProfDeleteAppScheme ==
    \E name \in ProfSchemeNames : Tock /\ delete_app_scheme(name)

ProfSetActiveAppScheme ==
    \E name \in ProfSchemeNames : Tock /\ set_active_app_scheme(name)

ProfNext ==
    \/ Read
    \/ DeleteProfile
    \/ ProfUpdate
    \/ ProfUpsertProfile
    \/ ProfUpsertAppScheme
    \/ ProfDeleteAppScheme
    \/ ProfSetActiveAppScheme
    \/ SetActiveProfile
    \/ Clear

\* the files a first call can find here: none, or a version 2 document
\* that holds one profile and no "default"
ProfInitFiles ==
    { NoFile,
      File(TRUE, FALSE, Name("p"),
           Put(NoProfiles, Name("p"),
               Cfg({"base_url"}, "http://h", "", NoName, <<>>))) }

ProfInit ==
    /\ SyncInit
    /\ regFile \in ProfInitFiles
    /\ regLast = RegNone
    /\ BundleIdle
    /\ WriteIdle
    /\ TaskIdle
    /\ PullIdle

ProfSpec == ProfInit /\ [][ProfNext]_vars

--------------------------------------------------------------------------
(* The bundle builds as a state machine: a task directory is drawn, then   *)
(* sync_push and sync_scan build its bundle, at any time and after any     *)
(* rewrite of its JSON files that keeps their values                       *)

\* ticks of the wall clock
MaxClock == 2

Reverse(q) == [i \in 1..Len(q) |-> q[Len(q) + 1 - i]]

TranscriptDicts ==
    {JDict(<<>>)}
        \cup {JDict(<<<<"full_text", ft>>, <<"segments", sg>>>>) :
                 ft \in {<<>>, <<"a">>}, sg \in {<<>>, <<"">>, <<"x">>}}
        \cup {JDict(<<<<"segments", sg>>, <<"full_text", ft>>>>) :
                 ft \in {<<>>, <<"a">>}, sg \in {<<>>, <<"">>, <<"x">>}}

AudioDict == JDict(<<<<"url", <<"u">>>>, <<"platform", <<Platform>>>>>>)
RequestDict == JDict(<<<<"url", <<"u">>>>>>)

\* the task directories load_local_note_item accepts: the audio metadata is
\* in <id>_audio.json or in <id>.json
Items ==
    {[ts |-> 1, md_exists |-> md_exists, md |-> md, tr_state |-> tr_state,
      tr |-> tr, audio |-> audio, res_md |-> res_md, res_tr |-> res_tr,
      res_audio |-> res_audio, request |-> request] :
        md_exists \in BOOLEAN, md \in Texts,
        tr_state \in {"absent", "corrupt", "json"},
        tr \in TranscriptDicts \cup {JNone, JList},
        audio \in {JNone, AudioDict}, res_md \in {<<>>, <<"a">>},
        res_tr \in {JNone, JDict(<<<<"full_text", <<"a">>>>>>)},
        res_audio \in {JNone, AudioDict}, request \in {JNone, RequestDict}}

BundleInit ==
    /\ clock = 1
    /\ SyncInit
    /\ regFile = NoFile
    /\ regLast = RegNone
    /\ item \in {it \in Items :
                    /\ it.md_exists \/ it.md = <<>>
                    /\ (it.tr_state = "json") = (it.tr # JNone)
                    /\ isdict(it.audio) \/ isdict(it.res_audio)}
    /\ built = [push |-> NoBuild, scan |-> NoBuild]
    /\ WriteIdle
    /\ TaskIdle
    /\ PullIdle

\* a bundle build leaves the stores and the registry alone
Tack == UNCHANGED <<syncVars, regVars, writeVars, taskVars, pullVars>>

BuildPush ==
    \E include_note \in BOOLEAN, include_transcript \in BOOLEAN :
        /\ built' = [built EXCEPT
                        !.push = push_bundle(item, include_note,
                                             include_transcript)]
        /\ UNCHANGED <<item, clock>>
        /\ Tack

BuildScan ==
    /\ built' = [built EXCEPT !.scan = scan_bundle(item)]
    /\ UNCHANGED <<item, clock>>
    /\ Tack

\* the JSON files are written again with the same values, the keys in
\* another order
Rewrite ==
    /\ item' = [item EXCEPT
                   !.tr = J(item.tr.kind, Reverse(item.tr.items)),
                   !.audio = J(item.audio.kind, Reverse(item.audio.items)),
                   !.res_audio = J(item.res_audio.kind,
                                   Reverse(item.res_audio.items))]
    /\ UNCHANGED <<built, clock>>
    /\ Tack

Advance ==
    /\ clock < MaxClock
    /\ clock' = clock + 1
    /\ UNCHANGED <<item, built>>
    /\ Tack

BundleNext ==
    \/ BuildPush
    \/ BuildScan
    \/ Rewrite
    \/ Advance

BundleSpec == BundleInit /\ [][BundleNext]_vars

--------------------------------------------------------------------------
(* Threads that rewrite one file while a reader reads it                   *)

WriteInit ==
    /\ SyncInit
    /\ regFile = NoFile
    /\ regLast = RegNone
    /\ BundleIdle
    /\ fs = [path |-> 0, tmp |-> NoInode,
             data |-> [i \in 0..MaxWriters |->
                          IF i = 0 THEN FirstDocument ELSE <<>>]]
    /\ \E kind \in WriterKinds :
          wr = [w \in Writers |->
                  Thread("start", kind, FirstDocument, NoInode, 0)]
    /\ seen = FirstDocument
    /\ TaskIdle
    /\ PullIdle

Tuck == UNCHANGED <<syncVars, regVars, bundleVars, taskVars, pullVars>>

PrepareStep == \E w \in Writers : Tuck /\ Prepare(w)
OpenTmpStep == \E w \in Writers : Tuck /\ OpenTmp(w)
WriteChunkStep == \E w \in Writers : Tuck /\ WriteChunk(w)
ReplaceTmpStep == \E w \in Writers : Tuck /\ ReplaceTmp(w)
ReadTextStep == Tuck /\ ReadText

WriteNext ==
    \/ PrepareStep
    \/ OpenTmpStep
    \/ WriteChunkStep
    \/ ReplaceTmpStep
    \/ ReadTextStep

WriteSpec == WriteInit /\ [][WriteNext]_vars

--------------------------------------------------------------------------
(* Threads that call the TaskManager and the delete_task handler           *)

TaskInit ==
    /\ SyncInit
    /\ regFile = NoFile
    /\ regLast = RegNone
    /\ BundleIdle
    /\ WriteIdle
    /\ tasks = [t \in {} |-> NoControl]
    /\ cancel_event = {}
    /\ created = 0
    /\ threads = [th \in Threads |-> Idle]
    /\ \E st \in TaskStatus \cup {NoStatus} :
          task_status = [t \in TaskNames \ {""} |-> st]
    /\ hist = [t \in TaskNames \ {""} |-> NoCancel]
    /\ tmLast = TmResp("init", "", TRUE, NoControl, FALSE)
    /\ PullIdle

Teck == UNCHANGED <<syncVars, regVars, bundleVars, writeVars, pullVars>>

EnsureCall == \E th \in Threads, tid \in TaskNames : Teck /\ ensure(th, tid)
CancelCall ==
    \E th \in Threads, tid \in TaskNames :
        Teck /\ cancel_ensure(th, tid, "cancel")
DeleteTaskCall ==
    \E th \in Threads, tid \in TaskNames :
        Teck /\ cancel_ensure(th, tid, "delete_task")
CancelSet == \E th \in Threads : Teck /\ cancel_set(th)
DeleteTask == \E th \in Threads : Teck /\ delete_task(th)
IsCancelled == \E th \in Threads, tid \in TaskNames : Teck /\ poll(th, tid)
Cleanup == \E th \in Threads, tid \in TaskNames : Teck /\ cleanup(th, tid)

TaskNext ==
    \/ EnsureCall
    \/ CancelCall
    \/ DeleteTaskCall
    \/ CancelSet
    \/ DeleteTask
    \/ IsCancelled
    \/ Cleanup

TaskSpec == TaskInit /\ [][TaskNext]_vars

--------------------------------------------------------------------------
(* Pulls of one identity from a bucket other installations write to        *)

\* the archives a push of PullKey builds
PullArchives ==
    {bundle_archive(PullKey, compute_sync_id(PullKey), AudioDict, note,
                    transcript, JNone) :
        note \in {<<>>, <<"a">>},
        transcript \in {JNone,
                        JDict(<<<<"full_text", <<"a">>>>,
                                <<"segments", <<"x">>>>>>)}}

\* the archive with another identity in its meta.json
WithIdentity(zip, source_key, sync_id) ==
    [zip EXCEPT !.meta_json.data.source_key = source_key,
                !.meta_json.data.sync_id = sync_id]

\* a stored archive with the metadata it can carry: no bundle-sha256, the
\* one of the archive that was pushed, the one of the archive that is stored
StoredAs(stored, pushed) ==
    {Remote(TRUE, stored, adv, tomb) :
        adv \in {NoSha, bundle_sha256(pushed), bundle_sha256(stored)},
        tomb \in BOOLEAN}

\* objects the bucket can hold under the key of PullKey: what a push wrote,
\* and objects whose meta.json or whose metadata do not fit
RemoteObjects ==
    UNION {StoredAs(WithIdentity(zip, sk, id), zip) :
             zip \in PullArchives,
             sk \in {PullKey, OtherKey, NoKey},
             id \in {compute_sync_id(PullKey), compute_sync_id(OtherKey)}}
        \cup {Remote(FALSE, NoArchive, NoSha, FALSE)}

PullInit ==
    /\ SyncInit
    /\ regFile = NoFile
    /\ regLast = RegNone
    /\ BundleIdle
    /\ WriteIdle
    /\ TaskIdle
    /\ task_dir \in {d \in [PullFiles \cup {"sync_meta"} -> {"", "local"}] :
                        d["md"] = "" \/ d["sync_meta"] = "local"}
    /\ remote \in RemoteObjects
    /\ pulled = PullResp(0, NoKey, FALSE, FALSE, NoSha)

Tyck == UNCHANGED <<syncVars, regVars, bundleVars, writeVars, taskVars>>

PullFaults == {"none", "tomb", "stat", "get"}

PullFilesCall ==
    \E overwrite \in BOOLEAN, fault \in PullFaults :
        Tyck /\ pull_files(PullKey, overwrite, fault)

TouchFile ==
    \E f \in PullFiles, content \in {"", "local"} :
        Tyck /\ touch_file(f, content)

PullNext ==
    \/ PullFilesCall
    \/ TouchFile

PullSpec == PullInit /\ [][PullNext]_vars

--------------------------------------------------------------------------
(* The SyncItem table of sync_scan and /sync/items, column by column.      *)
(* A row keeps the columns /sync/items decides with; the other columns are *)
(* copied from the scanned item and handed back as they are.               *)

\* DifyConfigManager().get_active_profile() of the calls, and a profile
\* that was active in an earlier session
Profile == "default"
OtherProfile == "work"

SyncItem(profile, it) ==
    [profile |-> profile,
     source_key |-> it.source_key,
     sync_id |-> it.sync_id,
     status |-> it.status,
     created_at_ms |-> it.created_at_ms,
     remote_has_note |-> it.remote_has_note,
     remote_has_transcript |-> it.remote_has_transcript,
     minio_tombstone_exists |-> it.minio_tombstone_exists]

\* the rows built of the merged items: only entries with both ids
SyncItems(items) ==
    {SyncItem(Profile, it) :
        it \in {x \in Range(items) : x.source_key # NoKey /\ x.sync_id # NoId}}

RowsOf(rows, profile) == {r \in rows : r.profile = profile}

\* a database step that saves the rows and deletes none
Persist_keep(rows) == table \cup rows

\* delete the rows of the profile, save the new ones, commit
Persist(rows) == (table \ RowsOf(table, Profile)) \cup rows

\* a sync_scan that reaches its database step after a failed listing
sync_scan_rows_always(difyFails, tombFails, bundleFails, dbFails) ==
    /\ sync_scan(difyFails, tombFails, bundleFails, dbFails)
    /\ table' = IF dbFails THEN table ELSE Persist(SyncItems(last'.items))

\* sync_scan with its database step; dbFails: the session or one of its
\* statements raises, the transaction is rolled back and the exception
\* dropped
sync_scan_rows(difyFails, tombFails, bundleFails, dbFails) ==
    /\ sync_scan(difyFails, tombFails, bundleFails, dbFails)
    /\ table' = IF difyFails \/ dbFails THEN table
                ELSE Persist(SyncItems(last'.items))

\* an entry of the /sync/items answer
CachedItem(status, sk, sid, ms, task, lhn, lht, rhn, rht, tomb) ==
    [status |-> status,
     source_key |-> sk,
     sync_id |-> sid,
     created_at_ms |-> ms,
     local_task_id |-> task,
     local_has_note |-> lhn,
     local_has_transcript |-> lht,
     remote_has_note |-> rhn,
     remote_has_transcript |-> rht,
     minio_tombstone_exists |-> tomb]

\* the source keys of local_by_source
LocalKeys == {KeyOf(files[t].ts) : t \in DOMAIN files}

\* _local_flags(local_by_source.get(sk))
local_flags(sk) ==
    IF sk \notin LocalKeys
    THEN [task |-> NoId, note |-> FALSE, transcript |-> FALSE]
    ELSE [task |-> local_by_source(sk),
          note |-> local_has_note(files[local_by_source(sk)]),
          transcript |-> local_has_transcript(files[local_by_source(sk)])]

\* the status of a cached row fused with the local flags
fused_status(base_status, tombstone, has_local, lhn, lht, rhn, rht) ==
    IF tombstone THEN (IF has_local THEN "LOCAL_ONLY" ELSE "DELETED")
    ELSE IF base_status \notin {"CONFLICT", "DELETED"}
    THEN IF has_local /\ (rhn \/ rht)
         THEN (IF lhn = rhn /\ lht = rht THEN "SYNCED" ELSE "PARTIAL")
         ELSE IF has_local THEN "LOCAL_ONLY"
         ELSE base_status
    ELSE base_status

\* the entry made of one row of the table
ItemOfRow(row) ==
    LET l == local_flags(row.source_key)
        has_local == l.task # NoId
        tombstone == row.minio_tombstone_exists = "true"
        hide == tombstone /\ has_local
    IN  CachedItem(fused_status(row.status, tombstone, has_local, l.note,
                                l.transcript, row.remote_has_note,
                                row.remote_has_transcript),
                   row.source_key, row.sync_id, row.created_at_ms, l.task,
                   l.note, l.transcript,
                   row.remote_has_note /\ ~hide,
                   row.remote_has_transcript /\ ~hide,
                   row.minio_tombstone_exists)

\* the entry of a local item that no row of the table carries
LocalOnlyItem(sk) ==
    LET l == local_flags(sk)
    IN  CachedItem("LOCAL_ONLY", sk, compute_sync_id(sk), sk[3], l.task,
                   l.note, l.transcript, FALSE, FALSE, "none")

\* db: "ok"; "closed" when get_db raises and the rows are taken as none;
\* "raise" when the query raises
sync_items_cached(db) ==
    IF db = "raise"
    THEN /\ last' = Fail("items", 500, NoKey)
         /\ UNCHANGED <<files, objects, tombstones, docs, cache>>
    ELSE \E rows \in {IF db = "closed" THEN {} ELSE RowsOf(table, Profile)} :
         \E merged \in {{ItemOfRow(r) : r \in rows}
                           \cup {LocalOnlyItem(sk) :
                                   sk \in LocalKeys
                                            \ {r.source_key : r \in rows}}} :
            /\ last' = Resp("items", 200, NoKey, NoId, NoInc, FALSE,
                            SortItems(merged))
            /\ UNCHANGED <<files, objects, tombstones, docs, cache>>

--------------------------------------------------------------------------
(* Scans, local changes and /sync/items over a table that already holds a  *)
(* row of another profile                                                  *)

\* the row a scan made under the other profile left in the table
OtherRows ==
    {[profile |-> OtherProfile,
      source_key |-> KeyOf(1),
      sync_id |-> compute_sync_id(KeyOf(1)),
      status |-> "DIFY_ONLY",
      created_at_ms |-> 1,
      remote_has_note |-> TRUE,
      remote_has_transcript |-> TRUE,
      minio_tombstone_exists |-> "false"]}

CacheInit ==
    /\ SyncFresh
    /\ cache = {}
    /\ table \in {{}, OtherRows}
    /\ IdentIdle
    /\ PagerIdle
    /\ RunIdle
    /\ NameIdle
    /\ CopyIdle
    /\ regFile = NoFile
    /\ regLast = RegNone
    /\ BundleIdle
    /\ WriteIdle
    /\ TaskIdle
    /\ PullIdle

\* a call that writes the table
Teak ==
    UNCHANGED <<regVars, bundleVars, writeVars, taskVars, pullVars, ident,
                pager, run, named, copies>>

ScanRows ==
    \E fault \in {"none", "dify", "tomb", "bundle", "db"} :
        Teak /\ sync_scan_rows(fault = "dify", fault = "tomb",
                               fault = "bundle", fault = "db")

ItemsCached ==
    \E db \in {"ok", "closed", "raise"} : Tick /\ sync_items_cached(db)

CacheNext ==
    \/ Generate
    \/ RemoveDir
    \/ Edit
    \/ Push
    \/ DeleteRemote
    \/ ScanRows
    \/ ItemsCached

CacheSpec == CacheInit /\ [][CacheNext]_vars

--------------------------------------------------------------------------
(* One task directory, generated at time 1 by a version that wrote the     *)
(* sync block or by one that did not, then loaded, generated again and     *)
(* rewritten                                                               *)

IdentInit ==
    /\ SyncFresh
    /\ cache = {}
    /\ table = {}
    /\ ident \in {Ident(NoSidecar, ms, 1, 1, "init") : ms \in {0, 1}}
    /\ PagerIdle
    /\ RunIdle
    /\ NameIdle
    /\ CopyIdle
    /\ regFile = NoFile
    /\ regLast = RegNone
    /\ BundleIdle
    /\ WriteIdle
    /\ TaskIdle
    /\ PullIdle

\* a call on the identity files of the task
Tonk ==
    UNCHANGED <<files, objects, tombstones, docs, cache, last, table, pager,
                run, named, copies, regVars, bundleVars, writeVars, taskVars,
                pullVars>>

LoadItem == Tonk /\ load_local_note_item
Rerun == Tonk /\ rerun_note_task
RewriteFiles == Tonk /\ rewrite_files

IdentNext ==
    \/ LoadItem
    \/ Rerun
    \/ RewriteFiles

IdentSpec == IdentInit /\ [][IdentNext]_vars

--------------------------------------------------------------------------
(* Calls of the two paginating functions against a server that answers     *)
(* each page in any way                                                    *)

PagerInit ==
    /\ SyncInit
    /\ regFile = NoFile
    /\ regLast = RegNone
    /\ BundleIdle
    /\ WriteIdle
    /\ TaskIdle
    /\ PullIdle

\* a step of a paginating function
Tink ==
    UNCHANGED <<files, objects, tombstones, docs, cache, last, table, ident,
                run, named, copies, regVars, bundleVars, writeVars, taskVars,
                pullVars>>

PagerCall ==
    \E fn \in {"list", "find"}, blank \in BOOLEAN :
        Tink /\ list_documents_call(fn, blank)

PagerPass ==
    \E kind \in {"dict", "other", "raise"}, has_more \in BOOLEAN,
       hit \in BOOLEAN :
        Tink /\ list_documents_pass(kind, has_more, hit)

PagerNext ==
    \/ PagerCall
    \/ PagerPass

PagerSpec == PagerInit /\ [][PagerNext]_vars

\* the loop runs on: a call that is in its loop makes its next request
PagerFairSpec == PagerSpec /\ WF_vars(PagerPass)

--------------------------------------------------------------------------
(* The background task and the cancelling request                          *)

RunInit == PagerInit

\* a step of the background task or of the cancelling request
Tunk ==
    UNCHANGED <<files, objects, tombstones, docs, cache, last, table, ident,
                pager, named, copies, regVars, bundleVars, writeVars,
                taskVars, pullVars>>

RunEnsure ==
    \E auto_minio \in BOOLEAN, auto_dify \in BOOLEAN :
        Tunk /\ run_ensure(auto_minio, auto_dify)

RunRequest == \E fails \in BOOLEAN : Tunk /\ run_request(fails)

RunGenerate ==
    \E outcome \in {"note", "empty", "raise"} : Tunk /\ run_generate(outcome)

RunSave ==
    \E saveFails \in BOOLEAN, metaFails \in BOOLEAN :
        Tunk /\ run_save(saveFails, metaFails)

RunMinio == \E fails \in BOOLEAN : Tunk /\ run_minio(fails)

RunDify == \E failed \in SUBSET RunSides : Tunk /\ run_dify(failed)

RunExcept == Tunk /\ run_except

RunCleanup == Tunk /\ run_cleanup

RunCancel == Tunk /\ run_cancel

RunNext ==
    \/ RunEnsure
    \/ RunRequest
    \/ RunGenerate
    \/ RunSave
    \/ RunMinio
    \/ RunDify
    \/ RunExcept
    \/ RunCleanup
    \/ RunCancel

RunSpec == RunInit /\ [][RunNext]_vars

--------------------------------------------------------------------------
(* Two copies of one item, step by step                                    *)

\* nothing was copied yet, or another item holds the first created_at_ms
CopyInit ==
    /\ SyncFresh
    /\ cache = {}
    /\ table = {}
    /\ IdentIdle
    /\ PagerIdle
    /\ RunIdle
    /\ NameIdle
    /\ copies \in {[th |-> [t \in CopyThreads |-> NoCopier],
                    dirs |-> [ms \in CopySlots |-> IF ms \in taken THEN 3
                                                   ELSE 0],
                    objs |-> [ms \in CopySlots |-> IF ms \in taken THEN 3
                                                   ELSE 0]] :
                     taken \in {{}, {1}}}
    /\ regFile = NoFile
    /\ regLast = RegNone
    /\ BundleIdle
    /\ WriteIdle
    /\ TaskIdle
    /\ PullIdle

\* a step of one of the two copies
Tank ==
    UNCHANGED <<files, objects, tombstones, docs, cache, last, table, ident,
                pager, run, named, regVars, bundleVars, writeVars, taskVars,
                pullVars>>

CopyCall ==
    \E th \in CopyThreads, new_ms \in 1..MaxCopyMs :
        Tank /\ copy_call(th, new_ms)

CopyProbe ==
    \E th \in CopyThreads, statFails \in BOOLEAN :
        Tank /\ copy_probe(th, statFails)

CopyPut ==
    \E th \in CopyThreads, fails \in BOOLEAN : Tank /\ copy_put(th, fails)

CopyWrite == \E th \in CopyThreads : Tank /\ copy_write(th)

CopyNext ==
    \/ CopyCall
    \/ CopyProbe
    \/ CopyPut
    \/ CopyWrite

CopySpec == CopyInit /\ [][CopyNext]_vars

--------------------------------------------------------------------------
(* The push of one item and the scan that follows it, for every item of    *)
(* NameTitles, NamePlatforms, NameVideoIds                                 *)

NameInit ==
    /\ SyncFresh
    /\ cache = {}
    /\ table = {}
    /\ IdentIdle
    /\ PagerIdle
    /\ RunIdle
    /\ CopyIdle
    /\ named \in {Named("local", title, platform, video_id, created_at_ms,
                        <<>>, "", {}) :
                     title \in NameTitles, platform \in NamePlatforms,
                     video_id \in NameVideoIds, created_at_ms \in Stamps}
    /\ regFile = NoFile
    /\ regLast = RegNone
    /\ BundleIdle
    /\ WriteIdle
    /\ TaskIdle
    /\ PullIdle

\* a step of the push or the scan of the named item
Tenk ==
    UNCHANGED <<files, objects, tombstones, docs, cache, last, table, ident,
                pager, run, copies, regVars, bundleVars, writeVars, taskVars,
                pullVars>>

NamePush == Tenk /\ name_push

NameScan == Tenk /\ name_scan

NameNext ==
    \/ NamePush
    \/ NameScan

NameSpec == NameInit /\ [][NameNext]_vars

--------------------------------------------------------------------------
(* The scheme operations on a profile that holds three schemes             *)

\* files the registry writes once a keyed scheme "main" and a scheme "s"
\* were added to the profile "p"
SchemeInitFiles ==
    { File(TRUE, FALSE, Name("p"),
           Put(Put(NoProfiles, DefaultName, EmptyCfg), Name("p"),
               Cfg({"base_url", "app_api_key", "app_schemes",
                    "active_app_scheme"}, "http://h",
                   IF active = Name("main") THEN "k1"
                   ELSE IF active = Name("s") THEN key ELSE "",
                   active,
                   <<Scheme(DEFAULT_APP_SCHEME, FALSE, ""),
                     Scheme(Name("main"), TRUE, "k1"),
                     Scheme(Name("s"), key # "", key)>>))) :
        active \in AppSchemeNames, key \in {"", "k2"} }

SchemeInit ==
    /\ SyncInit
    /\ regFile \in SchemeInitFiles
    /\ regLast = RegNone
    /\ BundleIdle
    /\ WriteIdle
    /\ TaskIdle
    /\ PullIdle

SchemeNext ==
    \/ Read
    \/ UpsertAppScheme
    \/ DeleteAppScheme
    \/ SetActiveAppScheme

SchemeSpec == SchemeInit /\ [][SchemeNext]_vars

--------------------------------------------------------------------------
(* Claims about the synchronisation operations                             *)

\* the items of the scan that was answered last
ScanItems ==
    IF last.op = "scan" /\ last.code = 200 THEN Range(last.items) ELSE {}

\* C1: a sync_pull of a source_key whose tombstone object exists returns
\* 410 and creates or modifies no local file, whatever overwrite is and
\* whether or not a bundle exists
C1_PullBlockedByTombstone ==
    [][(last'.op = "pull" /\ compute_sync_id(last'.sk) \in tombstones)
          => (last'.code = 410 /\ files' = files)]_vars

\* C2: a push that follows a successful push of the same task with the same
\* include flags, nothing in between, uploads no bundle; a successful push
\* of an item whose bundle key is free uploads one
C2_PushIdempotent ==
    [][(last'.op = "push" /\ last'.code = 200)
          => /\ (last.op = "push" /\ last.code = 200
                    /\ last.task = last'.task /\ last.inc = last'.inc)
                  => (~last'.put /\ objects' = objects)
             /\ compute_sync_id(last'.sk) \notin DOMAIN objects
                  => (last'.put
                        /\ compute_sync_id(last'.sk) \in DOMAIN objects')]_vars

\* a push was answered 200 without an upload
C2_Witness ==
    /\ last.op = "push" /\ last.code = 200 /\ ~last.put
    /\ last.task \in DOMAIN files
    /\ compute_sync_id(last.sk) \in DOMAIN objects

\* C3: a sync_copy that returns success found neither the task directory
\* nor the bundle object of the new identity present when it started
C3_CopyUnique ==
    [][(last'.op = "copy" /\ last'.code = 200)
          => (last'.task \notin DOMAIN files
                /\ last'.task \notin DOMAIN objects)]_vars

\* what C7 says of one scanned item
C7_Rule(it) ==
    IF LocalWithKey(it.source_key) = {}
    THEN it.status = "DELETED"
    ELSE /\ it.status = "LOCAL_ONLY"
         /\ ~it.remote_has_note /\ ~it.remote_has_transcript
         /\ it.dify_note_document = NoDoc
         /\ it.dify_transcript_document = NoDoc

C8_DeletedAfterDeleteRemote ==
    [][(last.op = "delete_remote" /\ last.code = 200
            /\ LocalWithKey(last.sk) = {}
            /\ compute_sync_id(last.sk) \in DOMAIN objects)
          => /\ (last'.op = "scan" /\ last'.code = 200)
                  => \E i \in DOMAIN last'.items :
                        /\ last'.items[i].source_key = last.sk
                        /\ last'.items[i].status = "DELETED"
             /\ (last'.op = "pull" /\ last'.sk = last.sk
                    /\ last'.inc = <<FALSE>>)
                  => last'.code = 410]_vars

\* the item has a local item, RAG documents with the same capability flags
\* as the local item, and no tombstone
C9_Case(it) ==
    /\ it.source_key # NoKey
    /\ LocalWithKey(it.source_key) # {}
    /\ it.sync_id \notin tombstones
    /\ \E rn \in {RemoteDoc(NoteDataset, "(transcript)", it.source_key)},
          rt \in {RemoteDoc(TranscriptDataset, "(note)", it.source_key)},
          f \in {files[local_by_source(it.source_key)]} :
            /\ rn # NoDoc \/ rt # NoDoc
            /\ local_has_note(f) = (rn # NoDoc)
            /\ local_has_transcript(f) = (rt # NoDoc)

\* the metadata of the item's bundle advertises a hash of the note or of
\* the transcript that differs from the hash of the local one
C9_Differs(it) ==
    /\ it.sync_id \in DOMAIN objects
    /\ \E m \in {objects[it.sync_id].metadata},
          pay \in {read_local_payloads(
                      files[local_by_source(it.source_key)])} :
            \/ /\ pay.note # "" /\ m.note_sha256 # ""
               /\ m.note_sha256 # Sha256Text(pay.note)
            \/ /\ pay.transcript # "" /\ m.transcript_sha256 # ""
               /\ m.transcript_sha256 # Sha256Text(pay.transcript)

C10_Legacy(d) == Tags[d.name].ok /\ Tags[d.name].created_at_ms = 0

\* what C10 says of one such document: an item of its own, joined with no
\* source key
C10_Rule(d) ==
    /\ \E it \in ScanItems :
          /\ it.status = "DIFY_ONLY_LEGACY"
          /\ it.source_key = NoKey /\ it.sync_id = NoId
          /\ it.local_task_id = NoId
          /\ d \in {it.dify_note_document, it.dify_transcript_document}
    /\ \A it \in ScanItems :
          it.source_key # NoKey
              => d \notin {it.dify_note_document, it.dify_transcript_document}

\* the cached table holds no row without a source key: the rows are those
\* of joined items
C10_CacheKeyed ==
    \A r \in cache : r.source_key # NoKey /\ r.sync_id # NoId

\* C10 as stated: every RAG document with a legacy tag is a
\* DIFY_ONLY_LEGACY item of its own in the scan result, merged with no
\* local item and absent from the cached table
C10_LegacyItems ==
    (last.op = "scan" /\ last.code = 200)
        => /\ \A d \in docs : C10_Legacy(d) => C10_Rule(d)
           /\ C10_CacheKeyed

\* C10 amended: the same, for the documents that pass the suffix filter of
\* their dataset's listing
C10_LegacyItemsListed ==
    (last.op = "scan" /\ last.code = 200)
        => /\ \A d \in docs :
                (C10_Legacy(d)
                    /\ d.name \in Passes[IF d.ds = NoteDataset
                                         THEN "(transcript)" ELSE "(note)"])
                  => C10_Rule(d)
           /\ C10_CacheKeyed

\* a legacy document was scanned next to a local item of its video
C10_Witness ==
    /\ \E it \in ScanItems : it.status = "DIFY_ONLY_LEGACY"
    /\ \E t \in DOMAIN files : TRUE
    /\ \E it \in ScanItems : it.local_task_id # NoId

--------------------------------------------------------------------------
(* Claims about the profile registry                                       *)

\* the cfg holds no credentials and no user data
C4_Clean(cfg) ==
    /\ cfg.base_url = ""
    /\ cfg.dataset_id = ""
    /\ cfg.app_api_key = ""
    /\ cfg.active_app_scheme \in {NoName, DEFAULT_APP_SCHEME}
    /\ \A i \in DOMAIN cfg.app_schemes :
          /\ cfg.app_schemes[i].name = DEFAULT_APP_SCHEME
          /\ cfg.app_schemes[i].key = ""

\* the patch writes a value that is not blank
C4_Writes(patch) ==
    \/ patch.base_url \notin {None, ""}
    \/ patch.dataset_id \notin {None, ""}
    \/ patch.app_api_key \notin {None, ""}

\* a profile other than "default" holds the values the patch wrote
C4_Held(profiles, patch) ==
    \E n \in DOMAIN profiles \ {DefaultName} :
        /\ patch.base_url \notin {None, ""}
              => profiles[n].base_url = patch.base_url
        /\ patch.dataset_id \notin {None, ""}
              => profiles[n].dataset_id = patch.dataset_id
        /\ patch.app_api_key \notin {None, ""}
              => profiles[n].app_api_key = patch.app_api_key

\* the last call was an update or upsert_profile that wrote the registry
C4_Written == regLast.op \in {"update", "upsert_profile"} /\ regLast.ok

C5_SchemeInvariant ==
    regLast.op = "read"
        => \A n \in DOMAIN regLast.profiles :
             \E cfg \in {regLast.profiles[n]} :
                /\ \E i \in DOMAIN cfg.app_schemes :
                      /\ cfg.app_schemes[i].name = DEFAULT_APP_SCHEME
                      /\ cfg.app_schemes[i].key = ""
                /\ \E i \in DOMAIN cfg.app_schemes :
                      /\ cfg.app_schemes[i].name = cfg.active_app_scheme
                      /\ cfg.app_schemes[i].key = cfg.app_api_key

\* a read returned a profile whose active scheme was set by a scheme call
\* and holds a key
C5_Witness ==
    /\ regLast.op = "read"
    /\ \E n \in DOMAIN regLast.profiles :
          /\ regLast.profiles[n].active_app_scheme = Name("s")
          /\ regLast.profiles[n].app_api_key = "k1"

\* C6: normalizing the registry that a normalization produced returns the
\* same active profile and the same profiles, finds nothing to change and
\* leaves the file as it is
C6_NormalizeIdempotent ==
    \E r1 \in {read_state_normalized(regFile, FALSE)} :
    \E f1 \in {write_state(r1.active, r1.profiles)} :
    \E r2 \in {read_state_normalized(f1, FALSE)} :
        /\ r2.active = r1.active
        /\ r2.profiles = r1.profiles
        /\ DOMAIN r2.profiles = DOMAIN r1.profiles
        /\ ~r2.changed
        /\ r2.file = f1
        /\ \A n \in DOMAIN r1.profiles :
              normalize_profile_cfg(r1.profiles[n]) = r1.profiles[n]

\* a read normalized a registry that needed it and persisted the result
C6_Witness ==
    /\ regLast.op = "read"
    /\ regFile.exists /\ regFile.profiles = regLast.profiles
    /\ \E n \in DOMAIN regLast.profiles :
          /\ n \notin ProfileNames
          /\ Len(regLast.profiles[n].app_schemes) = 2

--------------------------------------------------------------------------
(* Claims about the bundle                                                 *)

\* C11: a sync_push that builds the bundle of the item again with the same
\* include flags, at any later time and after any rewrite of the JSON
\* files that keeps their values, builds the same archive; and the bundle
\* sync_scan builds of the item has the bundle_sha256 of the bundle that
\* sync_push built of it with both include flags set
C11_BundleDeterministic ==
    [][/\ (built.push.code = 200 /\ built'.push.code = 200
              /\ built'.push.inc = built.push.inc)
            => built'.push.zip = built.push.zip
       /\ (built'.push.code = 200 /\ built'.push.inc = <<TRUE, TRUE>>
              /\ built'.scan.code = 200)
            => bundle_sha256(built'.scan.zip)
                 = bundle_sha256(built'.push.zip)]_vars

\* sync_push with both flags and sync_scan built a bundle that holds a
\* note, a transcript, its subtitles and the audio metadata
C11_Witness ==
    /\ built.push.code = 200 /\ built.push.inc = <<TRUE, TRUE>>
    /\ built.scan.code = 200
    /\ clock = MaxClock
    /\ \A k \in BundleFiles : built.scan.zip[k].present

\* what C12 says of an archive
C12_Consistent(zip) ==
    \E meta \in {zip.meta_json.data} :
        \A k \in BundleFiles :
            /\ zip[k].present = meta.files[k]
            /\ zip[k].present = (k \in DOMAIN meta.content_sha256)
            /\ zip[k].present
                  => meta.content_sha256[k] = sha256_hex(zip[k].data)

\* C12: in every bundle built, each of note.md, audio.json,
\* transcript.json and transcript.srt is in the archive exactly when its
\* meta.files flag is true and exactly when meta.content_sha256 has its
\* key, and the recorded hash is the SHA-256 of the embedded bytes
C12_HashConsistency ==
    /\ built.push.code = 200 => C12_Consistent(built.push.zip)
    /\ built.scan.code = 200 => C12_Consistent(built.scan.zip)

\* a bundle was built of a note, the audio metadata and a transcript that
\* yields no subtitles
C12_Witness ==
    /\ built.push.code = 200
    /\ built.push.zip.transcript_json.present
    /\ ~built.push.zip.transcript_srt.present
    /\ built.push.zip.note_md.present
    /\ built.push.zip.audio_json.present

--------------------------------------------------------------------------
(* Claims about the profile registry: update, delete_profile and           *)
(* delete_app_scheme                                                       *)

\* the patch {base_url: "http://h:8443", dataset_id: "ds-abcdef1234"}
C13_Patch(patch) ==
    patch.base_url = "http://h:8443" /\ patch.dataset_id = "ds-abcdef1234"

\* the file's active profile is the profile derived from the host, the port
\* and the first 8 characters of the dataset_id, it holds the values of the
\* patch, get_active_profile returns its name, and "default" is empty
C13_Post(file) ==
    /\ get_active_profile(file) = Name("h-8443-ds-abcde")
    /\ file.active = Name("h-8443-ds-abcde")
    /\ Name("h-8443-ds-abcde") \in DOMAIN file.profiles
    /\ file.profiles[Name("h-8443-ds-abcde")].base_url = "http://h:8443"
    /\ file.profiles[Name("h-8443-ds-abcde")].dataset_id = "ds-abcdef1234"
    /\ DefaultName \in DOMAIN file.profiles
    /\ C4_Clean(file.profiles[DefaultName])

C13_Updated ==
    /\ regLast.op = "update" /\ regLast.ok /\ C13_Patch(regLast.patch)
    /\ regLast.target = DefaultName
    /\ DOMAIN regFile.profiles = {DefaultName}

C17_DeleteProfileGuards ==
    [][regLast'.op = "delete_profile" =>
        \E r \in {read_state(regFile)} :
            /\ regLast'.target = DefaultName
                   => ~regLast'.ok /\ regFile' = regFile
            /\ (regLast'.target # NoName
                    /\ DOMAIN r.profiles = {regLast'.target})
                   => ~regLast'.ok /\ regFile' = regFile
            /\ (regLast'.ok /\ regLast'.target = r.active)
                   => \E w \in {read_state(regFile')} :
                          /\ w.active # regLast'.target
                          /\ w.active \in DOMAIN r.profiles
                          /\ w.active \in DOMAIN w.profiles
                          /\ regLast'.target \notin DOMAIN w.profiles]_vars

\* the active profile was deleted and another one took its place
C17_Witness ==
    /\ regLast.op = "delete_profile"
    /\ regLast.ok
    /\ regLast.target \notin {NoName, DefaultName}
    /\ regLast.active = regLast.target
    /\ regFile.active # regLast.target

\* the only profile of the file, not "default", was refused
C17_LastProfileRefused ==
    /\ regLast.op = "delete_profile"
    /\ ~regLast.ok
    /\ regLast.target # DefaultName
    /\ DOMAIN read_state(regFile).profiles = {regLast.target}

\* the schemes of the active profile as delete_app_scheme reads them
C18_Schemes ==
    SchemeNames(normalize_profile_cfg(
        read_state_normalized(regFile, FALSE).profiles[
            read_state_normalized(regFile, FALSE).active]).app_schemes)

\* the registry a normalized read returns is the same before and after
C18_SameRegistry ==
    \E a \in {read_state_normalized(regFile, FALSE)} :
    \E b \in {read_state_normalized(regFile', FALSE)} :
        a.active = b.active /\ a.profiles = b.profiles

\* C18 as stated: delete_app_scheme on the only scheme of the active
\* profile raises and the registry file is what it was before the call.
C18_RefusedKeepsFile ==
    [][\A name \in AppSchemeNames :
          (Tock /\ delete_app_scheme(name) /\ C18_Schemes = {name})
             => ~regLast'.ok /\ regFile' = regFile]_vars

\* C18: delete_app_scheme on the only scheme of the active profile raises
\* and the registry a normalized read returns is what it was before the
\* call; after an accepted delete_app_scheme the active_app_scheme of the
\* profile is one of its app_schemes.
C18_DeleteAppSchemeGuards ==
    [][\A name \in AppSchemeNames :
          (Tock /\ delete_app_scheme(name)) =>
             /\ C18_Schemes = {name}
                   => ~regLast'.ok /\ C18_SameRegistry
             /\ (regLast'.ok /\ name \in C18_Schemes)
                   => \E cfg \in {regFile'.profiles[regLast'.target]} :
                         cfg.active_app_scheme
                            \in SchemeNames(cfg.app_schemes)]_vars

\* the active scheme of a profile with two schemes was deleted
C18_Witness ==
    /\ regLast.op = "delete_app_scheme"
    /\ regLast.ok
    /\ regLast.target # NoName
    /\ Len(regFile.profiles[regLast.target].app_schemes) = 1

\* the only scheme of the active profile was refused
C18_LastSchemeRefused ==
    /\ regLast.op = "delete_app_scheme"
    /\ ~regLast.ok

--------------------------------------------------------------------------
(* Claims about concurrent writers of one file                             *)

\* every thread has returned or raised
C14_AllReturned == \A w \in Writers : wr[w].pc \in {"done", "failed"}

\* the documents the threads were writing
C14_Written == {wr[w].doc : w \in Writers}

\* C14: whatever the interleaving of the threads that rewrite a file and
\* of a reader, the reader reads a complete document, no thread raises,
\* and when all threads have returned the file holds the document of one
\* of them.
C14_AtomicRewrite ==
    /\ IsComplete(seen)
    /\ \A w \in Writers : wr[w].pc # "failed"
    /\ C14_AllReturned => fs.data[fs.path] \in C14_Written

\* no reader reads a text that is not a document
C14_NoTornRead == IsComplete(seen)

\* no thread raises FileNotFoundError
C14_NoWriterRaises == \A w \in Writers : wr[w].pc # "failed"

\* the file ends as a document one of the threads wrote
C14_FinalIsWritten == C14_AllReturned => fs.data[fs.path] \in C14_Written

--------------------------------------------------------------------------
(* Claims about the TaskManager and delete_task                            *)

\* C15 as stated: is_cancelled(task_id) is true exactly when a
\* cancel(task_id) has returned since the last cleanup(task_id).
C15_CancelledIffCancelCalled ==
    \A tid \in TaskNames \ {""} : is_cancelled(tid) = hist[tid].returned

\* C15: is_cancelled(task_id) is true exactly when a cancel(task_id) has
\* returned since the last cleanup(task_id) that no cleanup(task_id)
\* overtook between its ensure and its cancel_event.set(); an ensure of a
\* task id that has a control returns that control and changes neither the
\* map nor any event.
C15_CancelledIffEffective ==
    [][/\ \A tid \in TaskNames \ {""} :
             (tid \in DOMAIN tasks' /\ tasks'[tid] \in cancel_event')
                = hist'[tid].effective
       /\ \A th \in Threads, tid \in DOMAIN tasks :
             (Teck /\ ensure(th, tid))
                => /\ tmLast'.ctrl = tasks[tid]
                   /\ tasks' = tasks
                   /\ cancel_event' = cancel_event]_vars

\* a cancelled task id was ensured again and is still cancelled
C15_Witness ==
    /\ tmLast.op = "ensure"
    /\ tmLast.ok
    /\ is_cancelled(tmLast.tid)
    /\ hist[tmLast.tid].effective

\* a cancel returned after a cleanup had removed its control
C15_LostCancel ==
    \E tid \in TaskNames \ {""} :
        hist[tid].returned /\ ~hist[tid].effective

\* C16: a delete_task that answers for a task whose persisted status is not
\* terminal leaves the status CANCELLED and the task cancelled; for a task
\* whose status is SUCCESS or FAILED it leaves the status as it was.
C16_DeleteTaskCancels ==
    [][\A th \in Threads :
          (Teck /\ delete_task(th))
             => \E tid \in {threads[th].tid} :
                /\ task_status[tid] \in TaskStatus \ {"SUCCESS", "FAILED"}
                      => task_status'[tid] = "CANCELLED"
                /\ task_status[tid] \in {"SUCCESS", "FAILED"}
                      => task_status'[tid] = task_status[tid]]_vars

--------------------------------------------------------------------------
(* Claims about sync_pull                                                  *)

\* the bundle a pull downloaded does not have the hash the handler read
\* from the metadata, or its meta.json names another source_key or
\* sync_id than the request
C19_Mismatch ==
    \/ /\ pulled'.advertised # NoSha
       /\ bundle_sha256(remote.zip) # pulled'.advertised
    \/ /\ remote.zip.meta_json.data.source_key # NoKey
       /\ remote.zip.meta_json.data.source_key # pulled'.source_key
    \/ /\ remote.zip.meta_json.data.sync_id # NoId
       /\ remote.zip.meta_json.data.sync_id
             # compute_sync_id(pulled'.source_key)

\* C19: a sync_pull that downloaded a bundle whose SHA-256 differs from the
\* advertised bundle-sha256, or whose meta.json names another source_key
\* or sync_id than the request, answers 500 and writes no file.
C19_IntegrityFailure ==
    [][\A overwrite \in BOOLEAN, fault \in PullFaults :
          (Tyck /\ pull_files(PullKey, overwrite, fault)
             /\ pulled'.downloaded /\ C19_Mismatch)
             => pulled'.code = 500 /\ task_dir' = task_dir]_vars

\* the part of C19 the handler keeps: such a pull writes no file
C19_WritesNothing ==
    [][\A overwrite \in BOOLEAN, fault \in PullFaults :
          (Tyck /\ pull_files(PullKey, overwrite, fault)
             /\ pulled'.downloaded /\ C19_Mismatch)
             => pulled'.code \in {400, 500} /\ task_dir' = task_dir]_vars

C21_WroteNone == \A f \in PullFiles : task_dir'[f] = task_dir[f]

\* C21 as stated: a sync_pull with overwrite = false answers 409 exactly
\* when it wrote none of the five task files, and one with overwrite =
\* true never answers 409.
C21_ConflictIffWroteNone ==
    [][\A overwrite \in BOOLEAN, fault \in PullFaults :
          (Tyck /\ pull_files(PullKey, overwrite, fault))
             => IF overwrite THEN pulled'.code # 409
                ELSE pulled'.code = 409 <=> C21_WroteNone]_vars

\* C21: a sync_pull with overwrite = false that got past the tombstone,
\* the download and the checks of the bundle answers 409 exactly when it
\* wrote none of the five task files, and 200 otherwise; one with
\* overwrite = true never answers 409.
C21_ConflictIffWroteNoneOfChecked ==
    [][\A overwrite \in BOOLEAN, fault \in PullFaults :
          (Tyck /\ pull_files(PullKey, overwrite, fault))
             => IF overwrite THEN pulled'.code # 409
                ELSE /\ pulled'.code = 409 => C21_WroteNone
                     /\ pulled'.code \in {200, 409}
                           => (pulled'.code = 409 <=> C21_WroteNone)
                     /\ pulled'.code \notin {200, 409}
                           => pulled'.code \in {400, 410, 500}]_vars

\* a pull without overwrite found every file in place and answered 409
C21_Witness ==
    /\ pulled.code = 409
    /\ ~pulled.overwrite
    /\ \A f \in PullFiles : task_dir[f] # ""

---------------------------------------------------------------------------
(* Claims about sync_push and sync_delete_remote                           *)

\* C22: after a sync_push that answers success no tombstone exists for the
\* sync_id of the item it pushed.
C22_PushRestores ==
    [][(last'.op = "push" /\ last'.code = 200)
          => compute_sync_id(last'.sk) \notin tombstones']_vars

\* a push answered success and the tombstone of its item is gone
C22_Restored ==
    /\ last.op = "push"
    /\ last.code = 200
    /\ compute_sync_id(last.sk) \notin tombstones
    /\ compute_sync_id(last.sk) \in DOMAIN objects

\* C23: a sync_push with update_dify in which no object-store call fails
\* answers with a success envelope once the bundle is stored, whatever
\* the RAG calls of the two sides do; the only other answers are the
\* refusals made before the upload (404 missing item, 400 missing text)
C23_RagFailureKeepsSuccess ==
    [][\A t \in TaskIds, include_note \in BOOLEAN,
          include_transcript \in TranscriptFlags, failed \in SUBSET Sides :
          (Tick /\ sync_push(t, include_note, include_transcript, TRUE,
                             "none", failed))
              => last'.code \in {200, 400, 404}]_vars

\* C24: a sync_delete_remote whose tombstone upload succeeds answers
\* success and leaves the tombstone of the sync_id in the bucket, also when
\* RAG delete calls are made for the document ids of the request
C24_DeleteRemoteKeepsSuccess ==
    [][\A sk \in Keys, delete_dify \in BOOLEAN, with_ids \in BOOLEAN :
          (Tick /\ sync_delete_remote(
                       sk, delete_dify,
                       IF with_ids
                       THEN RemoteDoc(NoteDataset, "(transcript)", sk)
                       ELSE NoDoc,
                       IF with_ids
                       THEN RemoteDoc(TranscriptDataset, "(note)", sk)
                       ELSE NoDoc,
                       "none", {}))
              => /\ last'.code = 200
                 /\ compute_sync_id(sk) \in tombstones']_vars

\* C25: a sync_push that answers with an error has left the object store as
\* it was before the call: no bundle object written, no tombstone removed
C25_FailedPushKeepsStore ==
    [][(last'.op = "push" /\ last'.code # 200)
          => (objects' = objects /\ tombstones' = tombstones)]_vars

--------------------------------------------------------------------------
(* Claims about the cached table and /sync/items                           *)

\* C26 as stated: after every sync_scan that returns success the cached
\* table holds for the profile exactly the rows of the returned items that
\* have a source_key and a sync_id, each with the item's status, and the
\* rows of the other profiles are as before
C26_CacheReplaced ==
    [][(last'.op = "scan" /\ last'.code = 200)
          => /\ RowsOf(table', Profile) = SyncItems(last'.items)
             /\ RowsOf(table', OtherProfile) = RowsOf(table, OtherProfile)]_vars

\* C26 amended: the same after a successful sync_scan whose database
\* transaction committed: one row per returned item with both ids, with the
\* item's key, id and status, no other row of the profile, the other
\* profiles' rows unchanged; a sync_scan whose database step raises still
\* returns success and leaves the whole table as it was
C26_CacheReplacedOnCommit ==
    [][\A fault \in {"none", "tomb", "bundle", "db"} :
          (/\ last'.op = "scan"
           /\ Teak
           /\ sync_scan_rows(FALSE, fault = "tomb", fault = "bundle",
                             fault = "db"))
              => /\ last'.code = 200
                 /\ RowsOf(table', OtherProfile) = RowsOf(table, OtherProfile)
                 /\ IF fault = "db" THEN table' = table
                    ELSE /\ \A it \in Range(last'.items) :
                               (it.source_key # NoKey /\ it.sync_id # NoId)
                                 => Cardinality(
                                      {r \in RowsOf(table', Profile) :
                                          /\ r.source_key = it.source_key
                                          /\ r.sync_id = it.sync_id
                                          /\ r.status = it.status}) = 1
                         /\ \A r \in RowsOf(table', Profile) :
                               Cardinality(
                                 {it \in Range(last'.items) :
                                     /\ it.source_key = r.source_key
                                     /\ it.sync_id = r.sync_id
                                     /\ it.status = r.status}) = 1]_vars

\* a committed scan replaced the row an earlier scan of the profile had
\* written with another status, while a row of the other profile is in the
\* table
C26_Witness ==
    /\ last.op = "scan" /\ last.code = 200
    /\ RowsOf(table, OtherProfile) # {}
    /\ RowsOf(table, Profile) = SyncItems(last.items)
    /\ \E r \in RowsOf(table, Profile) : r.status = "PARTIAL"

\* C27: every item of a /sync/items answer reported LOCAL_ONLY, SYNCED or
\* PARTIAL has a local task at the time of the call, every local item that
\* no row of the table carries is reported LOCAL_ONLY, and the call left
\* the object store and the RAG documents alone
C27_ItemsReflectLocal ==
    [][(last'.op = "items" /\ last'.code = 200)
          => /\ \A it \in Range(last'.items) :
                   it.status \in {"LOCAL_ONLY", "SYNCED", "PARTIAL"}
                     => /\ it.source_key \in LocalKeys
                        /\ it.local_task_id \in DOMAIN files
             /\ \A sk \in LocalKeys :
                   sk \notin {r.source_key : r \in RowsOf(table, Profile)}
                     => \E it \in Range(last'.items) :
                           it.source_key = sk /\ it.status = "LOCAL_ONLY"
             /\ UNCHANGED <<objects, tombstones, docs, files, table>>]_vars

--------------------------------------------------------------------------
(* Claims about the classification of sync_scan                            *)

\* the status the ordered rules give a joined source key, from the local
\* store and the RAG documents as they are and from what is taken for the
\* absence of the bundle
C28_Rules(it, bundle_absent) ==
    LET sk == it.source_key
        has_local == LocalWithKey(sk) # {}
        f == files[local_by_source(sk)]
        rhn == RemoteDoc(NoteDataset, "(transcript)", sk) # NoDoc
        rht == RemoteDoc(TranscriptDataset, "(note)", sk) # NoDoc
    IN  IF ~has_local
        THEN (rhn \/ rht)
             /\ it.status = (IF bundle_absent THEN "DIFY_ONLY_NO_BUNDLE"
                             ELSE "DIFY_ONLY")
        ELSE IF ~(rhn \/ rht) THEN it.status = "LOCAL_ONLY"
        ELSE IF <<local_has_note(f), local_has_transcript(f)>> # <<rhn, rht>>
        THEN it.status = "PARTIAL"
        ELSE it.status \in {"SYNCED", "CONFLICT"}

\* the joined entries of the last scan answer
C28_Joined == {it \in ScanItems : it.source_key # NoKey}

--------------------------------------------------------------------------
(* Claims about the local identity of pulled and generated items           *)

\* what C29 says of one pull of sk that wrote (200) or found everything
\* written (409): with a local item carrying sk before the call no
\* directory is created, at most the directory of one carrier changes and
\* the carriers stay the same; with none, the directory <sync_id> is
\* created and is the only carrier; a key with at most one carrier before
\* has exactly one after
C29_Rule(sk) ==
    LET sync_id == compute_sync_id(sk)
    IN  /\ IF LocalWithKey(sk) # {}
           THEN /\ DOMAIN files' = DOMAIN files
                /\ \E t \in LocalWithKey(sk) :
                      \A u \in DOMAIN files \ {t} : files'[u] = files[u]
                /\ LocalWithKey(sk)' = LocalWithKey(sk)
           ELSE /\ sync_id \notin DOMAIN files
                /\ DOMAIN files' = DOMAIN files \cup {sync_id}
                /\ \A u \in DOMAIN files : files'[u] = files[u]
                /\ LocalWithKey(sk)' = {sync_id}
        /\ Cardinality(LocalWithKey(sk)) <= 1
             => Cardinality(LocalWithKey(sk)') = 1

C30_IdentityKept ==
    [][ident.sidecar # NoSidecar
          => /\ ident'.sidecar = ident.sidecar
             /\ ident'.ret.created_at_ms = ident.sidecar.created_at_ms
             /\ ident'.ret.source_key = ident.sidecar.source_key]_vars

--------------------------------------------------------------------------
(* Claims about the paginating functions                                   *)

\* C31: whatever the server answers on each page, a call of
\* _list_all_documents or _find_document_by_name makes at most 200
\* list_documents calls, asks for no page beyond the 200th, and returns
C31_Terminates ==
    /\ [](pager.calls <= PageCap /\ pager.page <= PageCap)
    /\ (pager.pc = "loop") ~> (pager.pc = "done")

\* a call ended at the cap after 200 calls that all answered has_more
C31_Witness ==
    /\ pager.pc = "done"
    /\ pager.result = "cap"
    /\ pager.calls = PageCap

--------------------------------------------------------------------------
(* Claims about the background task                                        *)

\* C32: once the cancellation of a running task has been requested, the
\* task writes no result file, uploads no bundle and creates no RAG
\* document
C32_CancelledWritesNothing ==
    [][run.cancelled =>
         /\ "result" \in run'.dir <=> "result" \in run.dir
         /\ run'.bundle = run.bundle
         /\ run'.docs = run.docs]_vars

--------------------------------------------------------------------------
(* Claims about the names of the RAG documents                             *)

\* C33: for every title, platform and video_id, the sync_scan that follows
\* a successful sync_push of the note and the transcript with update_dify
\* reads the item's source_key back from both document names, joins both
\* documents to the local item, reports it SYNCED and makes no other entry
\* of them
C33_NamesJoin ==
    named.pc = "scanned"
        => /\ named.status = "SYNCED"
           /\ named.others = {}
           /\ \A i \in {1, 2} :
                  LET parsed == parse_tag(named.names[i])
                  IN  /\ parsed.ok
                      /\ source_key_text(parsed.platform, parsed.video_id,
                                         parsed.created_at_ms)
                           = source_key_text(named.platform, named.video_id,
                                             named.created_at_ms)

--------------------------------------------------------------------------
(* Claims about the failures of sync_scan                                  *)

\* C34: a sync_scan in which a listing of the RAG documents raises answers
\* with an error, whatever the later steps would have done, and leaves
\* every row of the cached table, and the rest of the state, as it was
C34_FailedListingKeepsTable ==
    [][\A tombFails \in BOOLEAN, bundleFails \in BOOLEAN, dbFails \in BOOLEAN :
          (/\ last'.op = "scan"
           /\ Teak
           /\ sync_scan_rows(TRUE, tombFails, bundleFails, dbFails))
              => /\ last'.code = 500
                 /\ last'.items = <<>>
                 /\ table' = table
                 /\ UNCHANGED <<files, objects, tombstones, docs, cache>>]_vars

\* a scan answered with an error while the table holds the rows an earlier
\* scan wrote for the profile
C34_Witness ==
    /\ last.op = "scan"
    /\ last.code = 500
    /\ RowsOf(table, Profile) # {}

--------------------------------------------------------------------------
(* Claims about sync_copy                                                  *)

\* C35: the source_key a successful sync_copy gives the copy is carried by
\* no item the local store held before the call, and after the call no two
\* local items carry the same source_key
C35_CopyKeyFresh ==
    [][(last'.op = "copy" /\ last'.code = 200)
          => /\ last'.sk \notin LocalKeys
             /\ \A t \in DOMAIN files', u \in DOMAIN files' :
                    t # u => KeyOf(files'[t].ts) # KeyOf(files'[u].ts)]_vars

--------------------------------------------------------------------------
(* Claims about the keys of the app schemes                                *)

\* the active profile's cfg as a scheme operation reads it
C36_Pre ==
    normalize_profile_cfg(
        read_state_normalized(regFile, FALSE).profiles[
            read_state_normalized(regFile, FALSE).active])

\* the cfg the operation wrote for that profile
C36_Post ==
    regFile'.profiles[read_state_normalized(regFile, FALSE).active]

\* every scheme the operation wrote stores the key it stored before (a
\* scheme that stored no key and is now the active one still stores none),
\* and the flat app_api_key is the key the active scheme stored before
C36_KeysKept ==
    /\ \A s \in SchemeNames(C36_Post.app_schemes) :
           SchemeKey(C36_Post.app_schemes, s)
              = SchemeKey(C36_Pre.app_schemes, s)
    /\ C36_Post.app_api_key
          = SchemeKey(C36_Pre.app_schemes, C36_Post.active_app_scheme)

\* C36: set_active_app_scheme, upsert_app_scheme with activate and without
\* a key, and delete_app_scheme copy no app_api_key from one scheme into another:
\* after activating a scheme that stores no key it still stores none, the
\* other schemes keep their keys and the flat app_api_key is empty
C36_NoKeyCopied ==
    [][\A name \in AppSchemeNames :
          /\ (Tock /\ set_active_app_scheme(name) /\ regLast'.ok)
                => C36_KeysKept
          /\ (Tock /\ upsert_app_scheme(name, None, TRUE))
                => C36_KeysKept
          /\ (Tock /\ delete_app_scheme(name) /\ regLast'.ok
                   /\ regLast'.target # NoName)
                => C36_KeysKept]_vars

--------------------------------------------------------------------------
(* Claims about the retry of a task id                                     *)

\* C37: the ensure(task_id) of a run that begins while no run of the task
\* id is in progress leaves is_cancelled(task_id) false, whatever cancels
\* were requested before it, and the map of task controls holds an entry
\* only for task ids that have a run in progress
C37_RetryStartsClean ==
    [][/\ \A th \in Threads, tid \in TaskNames \ {""} :
             (Teck /\ ensure(th, tid) /\ ~hist[tid].running)
                => ~(tid \in DOMAIN tasks' /\ tasks'[tid] \in cancel_event')
       /\ \A tid \in DOMAIN tasks' : hist'[tid].running]_vars

--------------------------------------------------------------------------
(* C38                                                                     *)

\* C38: two sync_copy calls on the same source_key that were given the
\* same created_at_ms and both ended never hold the same new source_key:
\* each has its own task directory and its own bundle object, written by
\* itself alone
C38_CopiesApart ==
    (/\ copies.th[1].pc = "done"
     /\ copies.th[2].pc = "done"
     /\ copies.th[1].req = copies.th[2].req)
        => /\ copies.th[1].key # copies.th[2].key
           /\ \A t \in CopyThreads :
                  /\ copies.dirs[copies.th[t].key] = t
                  /\ copies.objs[copies.th[t].key] = t

--------------------------------------------------------------------------
(* C39                                                                     *)

\* the bundle sync_push would build of the local item t with the flags inc
C39_BundleOf(t, inc) ==
    LET pay == read_local_payloads(files[t])
        source_key == KeyOf(files[t].ts)
    IN  build_bundle_zip(source_key, compute_sync_id(source_key),
                         IF inc[1] THEN pay.note ELSE "",
                         IF inc[2] THEN pay.transcript ELSE "")

\* C39: sync_delete_remote leaves every bundle object with its metadata
\* and every local file as they were; and a successful sync_push that
\* follows it for the same source_key, the stored bundle being the one the
\* push builds, removes the tombstone and uploads nothing
C39_DeleteKeepsBundle ==
    [][/\ last'.op = "delete_remote"
            => (objects' = objects /\ files' = files)
       /\ (/\ last.op = "delete_remote" /\ last.code = 200
           /\ last'.op = "push" /\ last'.code = 200
           /\ last'.sk = last.sk
           /\ compute_sync_id(last.sk) \in DOMAIN objects
           /\ existing_sha(StatBundle(compute_sync_id(last.sk)))
                = Sha256Bundle(C39_BundleOf(last'.task, last'.inc)))
            => /\ compute_sync_id(last.sk) \notin tombstones'
               /\ ~last'.put
               /\ objects' = objects]_vars

--------------------------------------------------------------------------
(* C40                                                                     *)

\* C40: every registry call that changes the file leaves a version 2
\* document with at least one profile whose active_profile names one of
\* its profiles; and a set_active_profile of a name the registry does not
\* hold is refused and leaves the file as it was
C40_WrittenFileSound ==
    [][/\ regFile' # regFile
            => /\ regFile'.exists
               /\ ~regFile'.flat
               /\ DOMAIN regFile'.profiles # {}
               /\ regFile'.active \in DOMAIN regFile'.profiles
       /\ \A name \in ProfileNames :
              (/\ name \notin DOMAIN read_state(regFile).profiles
               /\ Tock
               /\ set_active_profile(name))
                  => (~regLast'.ok /\ regFile' = regFile)]_vars

\* a set_active_profile of a name the file does not hold was refused, the
\* file being a version 2 document written by an earlier call
C40_Witness ==
    /\ regLast.op = "set_active_profile"
    /\ ~regLast.ok
    /\ regLast.target # NoName
    /\ regLast.target \notin DOMAIN regFile.profiles
    /\ regFile.exists
    /\ ~regFile.flat
    /\ regFile.active \in DOMAIN regFile.profiles

====
